---- MODULE Spec2Model ----
(***************************************************************************)
(* Belldog: per-channel webhook tokens kept in a DynamoDB table keyed by   *)
(* (channel_name, version).  The model covers the token service            *)
(* (internal/service/token.go), the storage adapter (storage/storage.go)   *)
(* and the batch reconciliation handler.                                   *)
(*                                                                         *)
(* Tokens "A", "B" stand for distinct 32-hex strings the generator may     *)
(* return, "X" for a string it never returns; "" is Go's zero string, as   *)
(* in a result that carries no token.  Errors are strings; "" is nil.      *)
(***************************************************************************)
EXTENDS Integers, FiniteSets, Sequences, TLC

MaxVersion == 2

maxTokenCount == 2
maxGenerateAttempts == 4

Names == {"general", "random"}
ChannelIDs == {"C1", "C2"}
Tokens == {"A", "B"}
GivenTokens == Tokens \cup {"X"}

\* What the generator returns on the successive calls of one operation; ""
\* is a call that fails (rand.Read returns an error).  An operation asks again
\* only while the value equals the one stored token, so the streams that
\* return a first value n times and a second one afterwards produce every
\* outcome.
GenStreams ==
    {[k \in 1..maxGenerateAttempts |-> IF k <= n THEN a ELSE b] :
        n \in 0..maxGenerateAttempts, a \in Tokens \cup {""}, b \in Tokens \cup {""}}

\* "" no dependency fails; "query": QueryByChannelName fails; "write": Save or
\* Delete fails.
Faults == {"", "query", "write"}

VARIABLES store, last, procs

vars == <<store, last, procs>>

(***************************************************************************)
(* storage.Record and the table.                                           *)
(***************************************************************************)
\* time.Now().UTC().Format(time.RFC3339Nano); the clock stands at one instant.
currentTimestamp == "2024-01-01T00:00:00Z"

\* A record as the service builds it (CreatedAt: currentTimestamp()).
Record(channelID, channelName, token, version) ==
    [ChannelID |-> channelID, ChannelName |-> channelName,
     Token |-> token, Version |-> version, CreatedAt |-> currentTimestamp]

SameKey(a, b) == a.ChannelName = b.ChannelName /\ a.Version = b.Version

\* Mutant: the table is keyed by version alone.
Save_VersionKey(s, rec, fault) ==
    IF fault = "write" THEN [store |-> s, err |-> "save"]
    ELSE [store |-> {r \in s : r.Version # rec.Version} \cup {rec}, err |-> ""]

\* PutItem without a condition expression: the item at the key is replaced.
Save(s, rec, fault) ==
    IF fault = "write" THEN [store |-> s, err |-> "save"]
    ELSE [store |-> {r \in s : ~SameKey(r, rec)} \cup {rec}, err |-> ""]

RECURSIVE SortByVersion(_)
SortByVersion(S) ==
    IF S = {} THEN <<>>
    ELSE LET r == CHOOSE x \in S : \A y \in S : x.Version <= y.Version
         IN <<r>> \o SortByVersion(S \ {r})

\* Query on the partition key with ScanIndexForward = true.
QueryByChannelName(s, channelName) ==
    SortByVersion({r \in s : r.ChannelName = channelName})

\* Mutant: DeleteItem on the key without a condition expression.
Delete_Unconditional(s, rec, fault) ==
    IF fault = "write" THEN [store |-> s, err |-> "delete"]
    ELSE IF \E r \in s : SameKey(r, rec)
         THEN [store |-> {r \in s : ~SameKey(r, rec)}, err |-> ""]
         ELSE [store |-> s, err |-> "delete"]

\* DeleteItem on the key with ConditionExpression "#t = :token".
Delete(s, rec, fault) ==
    IF fault = "write" THEN [store |-> s, err |-> "delete"]
    ELSE IF \E r \in s : SameKey(r, rec) /\ r.Token = rec.Token
         THEN [store |-> {r \in s : ~SameKey(r, rec)}, err |-> ""]
         ELSE [store |-> s, err |-> "delete"]

(***************************************************************************)
(* Token service: result structs.                                          *)
(***************************************************************************)
VerifyResult(notFound, unmatch, channelID, channelName) ==
    [NotFound |-> notFound, Unmatch |-> unmatch,
     ChannelID |-> channelID, ChannelName |-> channelName]

GenerateResult(isGenerated, token) ==
    [IsGenerated |-> isGenerated, Token |-> token]

RegenerateResult(noTokenFound, tooManyToken, token) ==
    [NoTokenFound |-> noTokenFound, TooManyToken |-> tooManyToken, Token |-> token]

RevokeResult(notFound) == [NotFound |-> notFound]

RevokeRenamedResult(notFound, channelIDUnmatch, linkedChannelID) ==
    [NotFound |-> notFound, ChannelIDUnmatch |-> channelIDUnmatch,
     LinkedChannelID |-> linkedChannelID]

\* One call of the storage adapter and whether it returned an error.
StorageCall(call, err) == [call |-> call, failed |-> err # ""]

QueryCall(fault) == StorageCall("QueryByChannelName", IF fault = "query" THEN "query" ELSE "")

\* What an operation leaves behind: the table, what it returned, and the
\* storage calls it made, in order.
Outcome(s, err, res, calls) == [store |-> s, err |-> err, res |-> res, calls |-> calls]

\* The storage calls of an operation whose first statement is the query.
AfterQuery(fault, out) == [out EXCEPT !.calls = <<QueryCall(fault)>> \o @]

(***************************************************************************)
(* Every operation of the service is one QueryByChannelName followed by at *)
(* most one Save or Delete.  Its read step (XxxRead) runs the operation up *)
(* to that write and yields either what it returns without writing or the  *)
(* write it goes on to make, with what it returns when the write succeeds  *)
(* (res) and when it fails (zero).  Commit is the write step.              *)
(***************************************************************************)
Return(err, res) == [kind |-> "return", err |-> err, res |-> res]

WriteSave(rec, res, zero) == [kind |-> "save", rec |-> rec, res |-> res, zero |-> zero]

WriteDelete(rec, res, zero) == [kind |-> "delete", rec |-> rec, res |-> res, zero |-> zero]

\* Mutant: a Save that fails is made once more.
Commit_RetrySave(s, step, fault) ==
    IF step.kind = "return" THEN Outcome(s, step.err, step.res, <<>>)
    ELSE IF step.kind = "save"
    THEN LET w == Save(s, step.rec, fault)
             again == Save(s, step.rec, "")
         IN IF w.err # ""
            THEN Outcome(again.store, "", step.res,
                         <<StorageCall("Save", w.err), StorageCall("Save", "")>>)
            ELSE Outcome(w.store, "", step.res, <<StorageCall("Save", "")>>)
    ELSE LET w == Delete(s, step.rec, fault)
         IN IF w.err # "" THEN Outcome(w.store, w.err, step.zero, <<StorageCall("Delete", w.err)>>)
            ELSE Outcome(w.store, "", step.res, <<StorageCall("Delete", "")>>)

\* Mutant: a write that succeeded is read back.
Commit_ReadBack(s, step, fault) ==
    IF step.kind = "return" THEN Outcome(s, step.err, step.res, <<>>)
    ELSE LET call == IF step.kind = "save" THEN "Save" ELSE "Delete"
             w == IF step.kind = "save" THEN Save(s, step.rec, fault)
                  ELSE Delete(s, step.rec, fault)
         IN IF w.err # "" THEN Outcome(w.store, w.err, step.zero, <<StorageCall(call, w.err)>>)
            ELSE Outcome(w.store, "", step.res,
                         <<StorageCall(call, ""), QueryCall("")>>)

Commit(s, step, fault) ==
    IF step.kind = "return" THEN Outcome(s, step.err, step.res, <<>>)
    ELSE LET call == IF step.kind = "save" THEN "Save" ELSE "Delete"
             w == IF step.kind = "save" THEN Save(s, step.rec, fault)
                  ELSE Delete(s, step.rec, fault)
         IN IF w.err # "" THEN Outcome(w.store, w.err, step.zero, <<StorageCall(call, w.err)>>)
            ELSE Outcome(w.store, "", step.res, <<StorageCall(call, "")>>)

(***************************************************************************)
(* VerifyToken                                                             *)
(***************************************************************************)
\* Mutant: only the first record of the query result is compared.
VerifyLoop_FirstOnly(recs, i, givenToken) ==
    IF recs[1].Token = givenToken
    THEN VerifyResult(FALSE, FALSE, recs[1].ChannelID, recs[1].ChannelName)
    ELSE VerifyResult(FALSE, TRUE, "", "")

\* Mutant: a match answers with the channel of the first record.
RECURSIVE VerifyLoop_FirstRecordID(_, _, _)
VerifyLoop_FirstRecordID(recs, i, givenToken) ==
    IF i > Len(recs) THEN VerifyResult(FALSE, TRUE, "", "")
    ELSE IF recs[i].Token = givenToken
         THEN VerifyResult(FALSE, FALSE, recs[1].ChannelID, recs[1].ChannelName)
         ELSE VerifyLoop_FirstRecordID(recs, i + 1, givenToken)

RECURSIVE VerifyLoop(_, _, _)
VerifyLoop(recs, i, givenToken) ==
    IF i > Len(recs) THEN VerifyResult(FALSE, TRUE, "", "")
    ELSE IF recs[i].Token = givenToken
         THEN VerifyResult(FALSE, FALSE, recs[i].ChannelID, recs[i].ChannelName)
         ELSE VerifyLoop(recs, i + 1, givenToken)

VerifyToken(s, channelName, givenToken, fault) ==
    IF fault = "query"
    THEN Outcome(s, "query", VerifyResult(FALSE, FALSE, "", ""), <<QueryCall(fault)>>)
    ELSE LET recs == QueryByChannelName(s, channelName)
         IN IF Len(recs) = 0
            THEN Outcome(s, "", VerifyResult(TRUE, FALSE, "", ""), <<QueryCall(fault)>>)
            ELSE Outcome(s, "", VerifyLoop(recs, 1, givenToken), <<QueryCall(fault)>>)

(***************************************************************************)
(* GetTokens                                                               *)
(***************************************************************************)
Entry(token, version, createdAt) ==
    [Token |-> token, Version |-> version, CreatedAt |-> createdAt]

\* time.Parse(time.RFC3339Nano, value) on the strings a created_at holds in
\* the model: the instant as <<year, month, day, hour, minute, second>>.
ParseTime(value) ==
    IF value = "2024-01-01T00:00:00Z"
    THEN [err |-> "", t |-> <<2024, 1, 1, 0, 0, 0>>]
    ELSE [err |-> "parse", t |-> <<1, 1, 1, 0, 0, 0>>]

recordToEntry(rec) ==
    LET p == ParseTime(rec.CreatedAt)
    IN IF p.err # "" THEN [err |-> "parse", entry |-> Entry("", 0, <<1, 1, 1, 0, 0, 0>>)]
       ELSE [err |-> "", entry |-> Entry(rec.Token, rec.Version, p.t)]

\* Mutant: a record whose created_at cannot be parsed is left out.
RECURSIVE GetTokensLoop_SkipUnparsable(_, _, _)
GetTokensLoop_SkipUnparsable(recs, i, entries) ==
    IF i > Len(recs) THEN [err |-> "", entries |-> entries]
    ELSE LET e == recordToEntry(recs[i])
         IN IF e.err # "" THEN GetTokensLoop_SkipUnparsable(recs, i + 1, entries)
            ELSE GetTokensLoop_SkipUnparsable(recs, i + 1, Append(entries, e.entry))

RECURSIVE GetTokensLoop(_, _, _)
GetTokensLoop(recs, i, entries) ==
    IF i > Len(recs) THEN [err |-> "", entries |-> entries]
    ELSE LET e == recordToEntry(recs[i])
         IN IF e.err # "" THEN [err |-> e.err, entries |-> <<>>]
            ELSE GetTokensLoop(recs, i + 1, Append(entries, e.entry))

GetTokens(s, channelName, fault) ==
    IF fault = "query" THEN Outcome(s, "query", <<>>, <<QueryCall(fault)>>)
    ELSE LET recs == QueryByChannelName(s, channelName)
             out == GetTokensLoop(recs, 1, <<>>)
         IN Outcome(s, out.err, out.entries, <<QueryCall(fault)>>)

(***************************************************************************)
(* Token generation                                                        *)
(***************************************************************************)
\* generatorImpl.generate: the k-th call of one operation yields gen[k].
generate(gen, k) ==
    IF gen[k] = "" THEN [token |-> "", err |-> "rand"]
    ELSE [token |-> gen[k], err |-> ""]

\* Mutant: the first generated value is taken without comparing it.
generateWithRetry_NoRetry(recs, gen) ==
    LET g == generate(gen, 1)
    IN IF g.err # "" THEN [token |-> "", err |-> "rand", calls |-> 1]
       ELSE [token |-> g.token, err |-> "", calls |-> 1]

\* Mutant: the value of the last attempt is returned without comparing it.
RECURSIVE generateWithRetryFrom_LastUnchecked(_, _, _)
generateWithRetryFrom_LastUnchecked(recs, gen, i) ==
    LET g == generate(gen, i + 1)
    IN IF g.err # "" THEN [token |-> "", err |-> "rand", calls |-> i + 1]
       ELSE IF i < 3 /\ \E j \in 1..Len(recs) : g.token = recs[j].Token
            THEN generateWithRetryFrom_LastUnchecked(recs, gen, i + 1)
            ELSE [token |-> g.token, err |-> "", calls |-> i + 1]

\* Mutant: the loop runs while i <= 4, one attempt more.
RECURSIVE generateWithRetryFrom_FiveAttempts(_, _, _)
generateWithRetryFrom_FiveAttempts(recs, gen, i) ==
    IF i > 4 THEN [token |-> "", err |-> "collision", calls |-> i]
    ELSE LET g == generate(gen, ((i) % maxGenerateAttempts) + 1)
         IN IF g.err # "" THEN [token |-> "", err |-> "rand", calls |-> i + 1]
            ELSE IF \E j \in 1..Len(recs) : g.token = recs[j].Token
                 THEN generateWithRetryFrom_FiveAttempts(recs, gen, i + 1)
                 ELSE [token |-> g.token, err |-> "", calls |-> i + 1]

\* The loop of generateWithRetry from its i-th round on; calls counts the
\* calls of gen.generate() made.
RECURSIVE generateWithRetryFrom(_, _, _)
generateWithRetryFrom(recs, gen, i) ==
    IF i > 3 THEN [token |-> "", err |-> "collision", calls |-> i]
    ELSE LET g == generate(gen, i + 1)
         IN IF g.err # "" THEN [token |-> "", err |-> "rand", calls |-> i + 1]
            ELSE IF \E j \in 1..Len(recs) : g.token = recs[j].Token
                 THEN generateWithRetryFrom(recs, gen, i + 1)
                 ELSE [token |-> g.token, err |-> "", calls |-> i + 1]

generateWithRetry(recs, gen) == generateWithRetryFrom(recs, gen, 0)

(***************************************************************************)
(* GenerateAndSaveToken                                                    *)
(***************************************************************************)
\* Mutant: a token is generated and saved whether or not records exist.
GenerateAndSaveTokenRead_NoExistCheck(s, channelID, channelName, gen, fault) ==
    IF fault = "query" THEN Return("query", GenerateResult(FALSE, ""))
    ELSE LET g == generate(gen, 1)
         IN IF g.err # "" THEN Return(g.err, GenerateResult(FALSE, ""))
            ELSE WriteSave(Record(channelID, channelName, g.token, 0),
                           GenerateResult(TRUE, g.token),
                           GenerateResult(FALSE, ""))

\* Mutant: the first token is saved as version 1.
GenerateAndSaveTokenRead_Version1(s, channelID, channelName, gen, fault) ==
    IF fault = "query" THEN Return("query", GenerateResult(FALSE, ""))
    ELSE LET recs == QueryByChannelName(s, channelName)
         IN IF Len(recs) > 0
            THEN Return("", GenerateResult(FALSE, recs[1].Token))
            ELSE LET g == generate(gen, 1)
                 IN IF g.err # "" THEN Return(g.err, GenerateResult(FALSE, ""))
                    ELSE WriteSave(Record(channelID, channelName, g.token, 1),
                                   GenerateResult(TRUE, g.token),
                                   GenerateResult(FALSE, ""))

\* Mutant: the token of the last existing record is returned.
GenerateAndSaveTokenRead_LastToken(s, channelID, channelName, gen, fault) ==
    IF fault = "query" THEN Return("query", GenerateResult(FALSE, ""))
    ELSE LET recs == QueryByChannelName(s, channelName)
         IN IF Len(recs) > 0
            THEN Return("", GenerateResult(FALSE, recs[Len(recs)].Token))
            ELSE LET g == generate(gen, 1)
                 IN IF g.err # "" THEN Return(g.err, GenerateResult(FALSE, ""))
                    ELSE WriteSave(Record(channelID, channelName, g.token, 0),
                                   GenerateResult(TRUE, g.token),
                                   GenerateResult(FALSE, ""))

\* Mutant: a query that failed is taken for a query that found nothing.
GenerateAndSaveTokenRead_QueryErrorAsEmpty(s, channelID, channelName, gen, fault) ==
    LET recs == IF fault = "query" THEN <<>> ELSE QueryByChannelName(s, channelName)
    IN IF Len(recs) > 0
       THEN Return("", GenerateResult(FALSE, recs[1].Token))
       ELSE LET g == generate(gen, 1)
            IN IF g.err # "" THEN Return(g.err, GenerateResult(FALSE, ""))
               ELSE WriteSave(Record(channelID, channelName, g.token, 0),
                              GenerateResult(TRUE, g.token),
                              GenerateResult(FALSE, ""))

GenerateAndSaveTokenRead(s, channelID, channelName, gen, fault) ==
    IF fault = "query" THEN Return("query", GenerateResult(FALSE, ""))
    ELSE LET recs == QueryByChannelName(s, channelName)
         IN IF Len(recs) > 0
            THEN Return("", GenerateResult(FALSE, recs[1].Token))
            ELSE LET g == generate(gen, 1)
                 IN IF g.err # "" THEN Return(g.err, GenerateResult(FALSE, ""))
                    ELSE WriteSave(Record(channelID, channelName, g.token, 0),
                                   GenerateResult(TRUE, g.token),
                                   GenerateResult(FALSE, ""))

GenerateAndSaveToken(s, channelID, channelName, gen, fault) ==
    AfterQuery(fault,
        Commit(s, GenerateAndSaveTokenRead(s, channelID, channelName, gen, fault), fault))

(***************************************************************************)
(* RegenerateToken                                                         *)
(***************************************************************************)
\* Mutant: the cap is tested with > instead of >=.
RegenerateTokenRead_CapOff(s, channelID, channelName, gen, fault) ==
    IF fault = "query" THEN Return("query", RegenerateResult(FALSE, FALSE, ""))
    ELSE LET recs == QueryByChannelName(s, channelName)
         IN IF Len(recs) = 0
            THEN Return("", RegenerateResult(TRUE, FALSE, ""))
            ELSE IF Len(recs) > maxTokenCount
            THEN Return("", RegenerateResult(FALSE, TRUE, ""))
            ELSE LET g == generateWithRetry(recs, gen)
                 IN IF g.err # "" THEN Return(g.err, RegenerateResult(FALSE, FALSE, ""))
                    ELSE LET latestRec == recs[1]
                         IN WriteSave(Record(channelID, channelName, g.token,
                                             latestRec.Version + 1),
                                      RegenerateResult(FALSE, FALSE, g.token),
                                      RegenerateResult(FALSE, FALSE, ""))

\* Mutant: the new record takes the version of the existing one.
RegenerateTokenRead_SameVersion(s, channelID, channelName, gen, fault) ==
    IF fault = "query" THEN Return("query", RegenerateResult(FALSE, FALSE, ""))
    ELSE LET recs == QueryByChannelName(s, channelName)
         IN IF Len(recs) = 0
            THEN Return("", RegenerateResult(TRUE, FALSE, ""))
            ELSE IF Len(recs) >= maxTokenCount
            THEN Return("", RegenerateResult(FALSE, TRUE, ""))
            ELSE LET g == generateWithRetry(recs, gen)
                 IN IF g.err # "" THEN Return(g.err, RegenerateResult(FALSE, FALSE, ""))
                    ELSE LET latestRec == recs[1]
                         IN WriteSave(Record(channelID, channelName, g.token,
                                             latestRec.Version),
                                      RegenerateResult(FALSE, FALSE, g.token),
                                      RegenerateResult(FALSE, FALSE, ""))

\* Mutant: the new record takes the number of existing records as its version.
RegenerateTokenRead_CountVersion(s, channelID, channelName, gen, fault) ==
    IF fault = "query" THEN Return("query", RegenerateResult(FALSE, FALSE, ""))
    ELSE LET recs == QueryByChannelName(s, channelName)
         IN IF Len(recs) = 0
            THEN Return("", RegenerateResult(TRUE, FALSE, ""))
            ELSE IF Len(recs) >= maxTokenCount
            THEN Return("", RegenerateResult(FALSE, TRUE, ""))
            ELSE LET g == generateWithRetry(recs, gen)
                 IN IF g.err # "" THEN Return(g.err, RegenerateResult(FALSE, FALSE, ""))
                    ELSE WriteSave(Record(channelID, channelName, g.token, Len(recs)),
                                   RegenerateResult(FALSE, FALSE, g.token),
                                   RegenerateResult(FALSE, FALSE, ""))

\* Mutant: the cap on the number of records is not applied.
RegenerateTokenFrom_NoCap(recs, channelID, channelName, gen) ==
    IF Len(recs) = 0
    THEN Return("", RegenerateResult(TRUE, FALSE, ""))
    ELSE LET g == generateWithRetry(recs, gen)
         IN IF g.err # "" THEN Return(g.err, RegenerateResult(FALSE, FALSE, ""))
            ELSE LET latestRec == recs[1]
                 IN WriteSave(Record(channelID, channelName, g.token,
                                     latestRec.Version + 1),
                              RegenerateResult(FALSE, FALSE, g.token),
                              RegenerateResult(FALSE, FALSE, ""))

\* Mutant: the new record takes the channel id of the stored record.
RegenerateTokenFrom_StoredID(recs, channelID, channelName, gen) ==
    IF Len(recs) = 0
    THEN Return("", RegenerateResult(TRUE, FALSE, ""))
    ELSE IF Len(recs) >= maxTokenCount
    THEN Return("", RegenerateResult(FALSE, TRUE, ""))
    ELSE LET g == generateWithRetry(recs, gen)
         IN IF g.err # "" THEN Return(g.err, RegenerateResult(FALSE, FALSE, ""))
            ELSE LET latestRec == recs[1]
                 IN WriteSave(Record(latestRec.ChannelID, channelName, g.token,
                                     latestRec.Version + 1),
                              RegenerateResult(FALSE, FALSE, g.token),
                              RegenerateResult(FALSE, FALSE, ""))

\* RegenerateToken from the records its query returned (recs, in the order
\* returned) up to its Save.
RegenerateTokenFrom(recs, channelID, channelName, gen) ==
    IF Len(recs) = 0
    THEN Return("", RegenerateResult(TRUE, FALSE, ""))
    ELSE IF Len(recs) >= maxTokenCount
    THEN Return("", RegenerateResult(FALSE, TRUE, ""))
    ELSE LET g == generateWithRetry(recs, gen)
         IN IF g.err # "" THEN Return(g.err, RegenerateResult(FALSE, FALSE, ""))
            ELSE LET latestRec == recs[1]
                 IN WriteSave(Record(channelID, channelName, g.token,
                                     latestRec.Version + 1),
                              RegenerateResult(FALSE, FALSE, g.token),
                              RegenerateResult(FALSE, FALSE, ""))

RegenerateTokenRead(s, channelID, channelName, gen, fault) ==
    IF fault = "query" THEN Return("query", RegenerateResult(FALSE, FALSE, ""))
    ELSE RegenerateTokenFrom(QueryByChannelName(s, channelName), channelID, channelName, gen)

RegenerateToken(s, channelID, channelName, gen, fault) ==
    AfterQuery(fault,
        Commit(s, RegenerateTokenRead(s, channelID, channelName, gen, fault), fault))

(***************************************************************************)
(* RevokeToken                                                             *)
(***************************************************************************)
\* Mutant: once a record matches, the first record of the group is deleted.
RevokeLoop_First(recs, i, givenToken) ==
    IF \E j \in 1..Len(recs) : recs[j].Token = givenToken
    THEN WriteDelete(recs[1], RevokeResult(FALSE), RevokeResult(FALSE))
    ELSE Return("", RevokeResult(TRUE))

RECURSIVE RevokeLoop(_, _, _)
RevokeLoop(recs, i, givenToken) ==
    IF i > Len(recs) THEN Return("", RevokeResult(TRUE))
    ELSE IF recs[i].Token = givenToken
         THEN WriteDelete(recs[i], RevokeResult(FALSE), RevokeResult(FALSE))
         ELSE RevokeLoop(recs, i + 1, givenToken)

RevokeTokenRead(s, channelName, givenToken, fault) ==
    IF fault = "query" THEN Return("query", RevokeResult(FALSE))
    ELSE LET recs == QueryByChannelName(s, channelName)
         IN IF Len(recs) = 0
            THEN Return("", RevokeResult(TRUE))
            ELSE RevokeLoop(recs, 1, givenToken)

RevokeToken(s, channelName, givenToken, fault) ==
    AfterQuery(fault, Commit(s, RevokeTokenRead(s, channelName, givenToken, fault), fault))

(***************************************************************************)
(* RevokeRenamedToken                                                      *)
(***************************************************************************)
\* Mutant: the record holding the token is deleted whoever asks.
RECURSIVE RevokeRenamedLoop_NoOwnerCheck(_, _, _, _)
RevokeRenamedLoop_NoOwnerCheck(recs, i, channelID, givenToken) ==
    IF i > Len(recs) THEN Return("", RevokeRenamedResult(TRUE, FALSE, ""))
    ELSE IF recs[i].Token = givenToken
         THEN WriteDelete(recs[i], RevokeRenamedResult(FALSE, FALSE, ""),
                          RevokeRenamedResult(FALSE, FALSE, ""))
         ELSE RevokeRenamedLoop_NoOwnerCheck(recs, i + 1, channelID, givenToken)

\* Mutant: a refusal names the caller's channel id.
RECURSIVE RevokeRenamedLoop_LinkedCaller(_, _, _, _)
RevokeRenamedLoop_LinkedCaller(recs, i, channelID, givenToken) ==
    IF i > Len(recs) THEN Return("", RevokeRenamedResult(TRUE, FALSE, ""))
    ELSE IF recs[i].Token = givenToken
         THEN IF recs[i].ChannelID # channelID
              THEN Return("", RevokeRenamedResult(FALSE, TRUE, channelID))
              ELSE WriteDelete(recs[i], RevokeRenamedResult(FALSE, FALSE, ""),
                               RevokeRenamedResult(FALSE, FALSE, ""))
         ELSE RevokeRenamedLoop_LinkedCaller(recs, i + 1, channelID, givenToken)

RECURSIVE RevokeRenamedLoop(_, _, _, _)
RevokeRenamedLoop(recs, i, channelID, givenToken) ==
    IF i > Len(recs) THEN Return("", RevokeRenamedResult(TRUE, FALSE, ""))
    ELSE IF recs[i].Token = givenToken
         THEN IF recs[i].ChannelID # channelID
              THEN Return("", RevokeRenamedResult(FALSE, TRUE, recs[i].ChannelID))
              ELSE WriteDelete(recs[i], RevokeRenamedResult(FALSE, FALSE, ""),
                               RevokeRenamedResult(FALSE, FALSE, ""))
         ELSE RevokeRenamedLoop(recs, i + 1, channelID, givenToken)

RevokeRenamedTokenRead(s, channelID, givenChannelName, givenToken, fault) ==
    IF fault = "query" THEN Return("query", RevokeRenamedResult(FALSE, FALSE, ""))
    ELSE LET recs == QueryByChannelName(s, givenChannelName)
         IN IF Len(recs) = 0
            THEN Return("", RevokeRenamedResult(TRUE, FALSE, ""))
            ELSE RevokeRenamedLoop(recs, 1, channelID, givenToken)

RevokeRenamedToken(s, channelID, givenChannelName, givenToken, fault) ==
    AfterQuery(fault,
        Commit(s, RevokeRenamedTokenRead(s, channelID, givenChannelName, givenToken, fault),
               fault))

(***************************************************************************)
(* Batch reconciliation (BatchHandler).                                    *)
(***************************************************************************)
OpsNotificationChannelName == "ops"

\* The channel listings Slack may return: every channel ID at most once.
Listings ==
    {L \in SUBSET [ID : ChannelIDs, Name : Names, IsArchived : BOOLEAN] :
        \A a, b \in L : a.ID = b.ID => a = b}

RECURSIVE SeqOf(_)
SeqOf(S) == IF S = {} THEN <<>>
            ELSE LET x == CHOOSE y \in S : TRUE IN <<x>> \o SeqOf(S \ {x})

GetAllChannels(L) == SeqOf(L)

\* The orders in which a pass over the channel names may run (the partitions
\* of a Scan, the keys of a Go map).
NameOrders ==
    {o \in [1..Cardinality(Names) -> Names] : \A i, j \in DOMAIN o : o[i] = o[j] => i = j}

RECURSIVE ScanFrom(_, _, _)
ScanFrom(s, nameOrder, i) ==
    IF i > Len(nameOrder) THEN <<>>
    ELSE QueryByChannelName(s, nameOrder[i]) \o ScanFrom(s, nameOrder, i + 1)

\* Scan: items of one partition come in sort-key order, partitions in any order.
ScanAll(s, nameOrder) == ScanFrom(s, nameOrder, 1)

\* How a PostMessage call can fail: a transport error, or a result other than
\* PostMessageResultOK.
PostFailures == {"error", "ServerTimeoutFailure", "ServerFailure", "APIFailure"}

\* What can go wrong while the calls of a pass (steps) are made: nothing
\* (n = 0), or the n-th call fails, a PostMessage in one of the four ways.
BatchFaults(steps) ==
    {[n |-> 0, result |-> "OK"]}
    \cup {[n |-> n, result |-> r] :
            n \in 1..Len(steps),
            r \in PostFailures \cup {"delete"}}

\* Index of the first listed channel with this ID, 0 when there is none (the
\* inner loop of the archive check stops at the first match).
FirstChannel(channels, channelID) ==
    LET I == {i \in 1..Len(channels) : channels[i].ID = channelID}
    IN IF I = {} THEN 0 ELSE CHOOSE i \in I : \A j \in I : i <= j

\* Mutant: the archived flag of the listed channel is not looked at.
IsArchivedRecord_FlagIgnored(rec, channels) ==
    LET i == FirstChannel(channels, rec.ChannelID)
    IN i # 0

IsArchivedRecord(rec, channels) ==
    LET i == FirstChannel(channels, rec.ChannelID)
    IN i # 0 /\ channels[i].IsArchived

ArchiveEvents(olds, channels) ==
    LET a == SelectSeq(olds, LAMBDA r : IsArchivedRecord(r, channels))
    IN [i \in 1..Len(a) |->
           [record |-> a[i],
            SlackChannelName |-> channels[FirstChannel(channels, a[i].ChannelID)].Name]]

\* Mutant: the archived records stay among those checked for migration and
\* rename.
LiveRecords_All(olds, channels) == olds

LiveRecords(olds, channels) ==
    SelectSeq(olds, LAMBDA r : ~IsArchivedRecord(r, channels))

\* Mutant: two records of one name with two tokens count as a migration
\* whatever their channel ids.
InMigration_AnyID(recs, i) ==
    \E j \in 1..Len(recs) :
        /\ recs[i].ChannelName = recs[j].ChannelName
        /\ recs[i].Token # recs[j].Token

\* Mutant: the tokens of the two records are not compared.
InMigration_AnyToken(recs, i) ==
    \E j \in 1..Len(recs) :
        /\ recs[i].ChannelID = recs[j].ChannelID
        /\ recs[i].ChannelName = recs[j].ChannelName

InMigration(recs, i) ==
    \E j \in 1..Len(recs) :
        /\ recs[i].ChannelID = recs[j].ChannelID
        /\ recs[i].ChannelName = recs[j].ChannelName
        /\ recs[i].Token # recs[j].Token

\* migrations[name] = rec, assigned in scan order: the last assignment stays.
Migrations(recs) ==
    LET names == {recs[i].ChannelName : i \in {k \in 1..Len(recs) : InMigration(recs, k)}}
    IN [name \in names |->
           LET I == {i \in 1..Len(recs) : recs[i].ChannelName = name /\ InMigration(recs, i)}
           IN recs[CHOOSE i \in I : \A j \in I : j <= i]]

RenameEvent(rec, channel) ==
    [channelID |-> rec.ChannelID, oldName |-> rec.ChannelName,
     newName |-> channel.Name, savedToken |-> rec.Token]

RECURSIVE RenamesFrom(_, _, _, _)
RenamesFrom(recs, channels, i, j) ==
    IF i > Len(recs) THEN <<>>
    ELSE IF j > Len(channels) THEN RenamesFrom(recs, channels, i + 1, 1)
    ELSE (IF recs[i].ChannelID = channels[j].ID /\ recs[i].ChannelName # channels[j].Name
          THEN <<RenameEvent(recs[i], channels[j])>> ELSE <<>>)
         \o RenamesFrom(recs, channels, i, j + 1)

Renames(recs, channels) == RenamesFrom(recs, channels, 1, 1)

\* The calls a pass makes, in order, when none of them fails.
PostStep(channelID, channelName, text) ==
    [type |-> "post", ChannelID |-> channelID, ChannelName |-> channelName, text |-> text]

DeleteStep(rec) == [type |-> "delete", record |-> rec]

notifyOps(msg) ==
    <<PostStep(OpsNotificationChannelName, OpsNotificationChannelName, msg)>>

notify(channelID, channelName, msg, msgOps) ==
    <<PostStep(channelID, channelName, msg)>> \o notifyOps(msgOps)

\* Mutant: an archived record is announced and left in the table.
ArchiveSteps_NoDelete(event) ==
    notifyOps([kind |-> "archived", channel_id |-> event.record.ChannelID,
               record_channel_name |-> event.record.ChannelName,
               slack_channel_name |-> event.SlackChannelName])

\* Mutant: the record is deleted before the ops channel is told.
ArchiveSteps_DeleteFirst(event) ==
    <<DeleteStep(event.record)>>
    \o notifyOps([kind |-> "archived", channel_id |-> event.record.ChannelID,
                  record_channel_name |-> event.record.ChannelName,
                  slack_channel_name |-> event.SlackChannelName])

ArchiveSteps(event) ==
    notifyOps([kind |-> "archived", channel_id |-> event.record.ChannelID,
               record_channel_name |-> event.record.ChannelName,
               slack_channel_name |-> event.SlackChannelName])
    \o <<DeleteStep(event.record)>>

MigrationSteps(rec) ==
    notify(rec.ChannelID, rec.ChannelName,
           [kind |-> "migration", channel_name |-> rec.ChannelName,
            channel_id |-> rec.ChannelID],
           [kind |-> "migrationOps", channel_name |-> rec.ChannelName,
            channel_id |-> rec.ChannelID])

\* Mutant: the channel is addressed under its old name.
RenameSteps_OldName(evt) ==
    notify(evt.channelID, evt.oldName,
           [kind |-> "rename", channel_id |-> evt.channelID,
            old_channel_name |-> evt.oldName, renamed_channel_name |-> evt.newName,
            token |-> evt.savedToken],
           [kind |-> "renameOps", channel_id |-> evt.channelID,
            old_channel_name |-> evt.oldName, renamed_channel_name |-> evt.newName])

RenameSteps(evt) ==
    notify(evt.channelID, evt.newName,
           [kind |-> "rename", channel_id |-> evt.channelID,
            old_channel_name |-> evt.oldName, renamed_channel_name |-> evt.newName,
            token |-> evt.savedToken],
           [kind |-> "renameOps", channel_id |-> evt.channelID,
            old_channel_name |-> evt.oldName, renamed_channel_name |-> evt.newName])

RECURSIVE Flatten(_)
Flatten(ss) == IF ss = <<>> THEN <<>> ELSE Head(ss) \o Flatten(Tail(ss))

\* Mutant: the renames are processed before the archived records and the
\* migrations.
BatchPlan_RenamesFirst(olds, channels, migOrder) ==
    LET archived == ArchiveEvents(olds, channels)
        recs == LiveRecords(olds, channels)
        migrations == Migrations(recs)
        migNames == SelectSeq(migOrder, LAMBDA n : n \in DOMAIN migrations)
        renames == Renames(recs, channels)
    IN Flatten([i \in 1..Len(renames) |-> RenameSteps(renames[i])])
       \o Flatten([i \in 1..Len(archived) |-> ArchiveSteps(archived[i])])
       \o Flatten([i \in 1..Len(migNames) |-> MigrationSteps(migrations[migNames[i]])])

BatchPlan(olds, channels, migOrder) ==
    LET archived == ArchiveEvents(olds, channels)
        recs == LiveRecords(olds, channels)
        migrations == Migrations(recs)
        migNames == SelectSeq(migOrder, LAMBDA n : n \in DOMAIN migrations)
        renames == Renames(recs, channels)
    IN Flatten([i \in 1..Len(archived) |-> ArchiveSteps(archived[i])])
       \o Flatten([i \in 1..Len(migNames) |-> MigrationSteps(migrations[migNames[i]])])
       \o Flatten([i \in 1..Len(renames) |-> RenameSteps(renames[i])])

\* slackClient.PostMessage as the pass sees it, made as the n-th call.
PostMessage(fault, n) ==
    IF fault.n = n /\ fault.result \in PostFailures
    THEN IF fault.result = "error" THEN [Type |-> "OK", err |-> "post"]
         ELSE [Type |-> fault.result, err |-> ""]
    ELSE [Type |-> "OK", err |-> ""]

handlePostMessageFailure(result) ==
    IF result.Type = "OK" THEN ""
    ELSE IF result.Type = "ServerTimeoutFailure" THEN "slack server timeout"
    ELSE IF result.Type = "ServerFailure" THEN "slack server error"
    ELSE IF result.Type = "APIFailure" THEN "slack API error"
    ELSE "unknown PostMessageResult type"

\* Mutant: the outcome of a PostMessage call is not looked at.
RECURSIVE RunBatch_PostUnchecked(_, _, _, _, _)
RunBatch_PostUnchecked(s, steps, k, fault, log) ==
    IF k > Len(steps) THEN [store |-> s, err |-> "", log |-> log]
    ELSE IF steps[k].type = "post"
    THEN LET result == PostMessage(fault, k)
             e == IF result.err # "" THEN result.err ELSE handlePostMessageFailure(result)
             entry == [call |-> steps[k], err |-> e]
         IN RunBatch_PostUnchecked(s, steps, k + 1, fault, Append(log, entry))
    ELSE LET d == Delete(s, steps[k].record,
                         IF fault.n = k /\ fault.result = "delete" THEN "write" ELSE "")
             entry == [call |-> steps[k], err |-> d.err]
         IN IF d.err # "" THEN [store |-> d.store, err |-> d.err, log |-> Append(log, entry)]
            ELSE RunBatch_PostUnchecked(d.store, steps, k + 1, fault, Append(log, entry))

\* Makes the calls one after the other and stops at the first that fails; log
\* lists the calls made, each with the error it came to.
RECURSIVE RunBatch(_, _, _, _, _)
RunBatch(s, steps, k, fault, log) ==
    IF k > Len(steps) THEN [store |-> s, err |-> "", log |-> log]
    ELSE IF steps[k].type = "post"
    THEN LET result == PostMessage(fault, k)
             e == IF result.err # "" THEN result.err ELSE handlePostMessageFailure(result)
             entry == [call |-> steps[k], err |-> e]
         IN IF e # "" THEN [store |-> s, err |-> e, log |-> Append(log, entry)]
            ELSE RunBatch(s, steps, k + 1, fault, Append(log, entry))
    ELSE LET d == Delete(s, steps[k].record,
                         IF fault.n = k /\ fault.result = "delete" THEN "write" ELSE "")
             entry == [call |-> steps[k], err |-> d.err]
         IN IF d.err # "" THEN [store |-> d.store, err |-> d.err, log |-> Append(log, entry)]
            ELSE RunBatch(d.store, steps, k + 1, fault, Append(log, entry))

\* The calls of a pass made with the scan in order nameOrder and the
\* migrations map iterated in order migOrder, under every failure of a call.
RunsOf(s, nameOrder, migOrder, L) ==
    LET steps == BatchPlan(ScanAll(s, nameOrder), GetAllChannels(L), migOrder)
    IN {RunBatch(s, steps, 1, fault, <<>>) :
          fault \in {f \in BatchFaults(steps) :
                       f.n = 0 \/ (steps[f.n].type = "delete") = (f.result = "delete")}}

\* Mutant: the error of GetAllChannels is looked at after the pass has run on
\* the channels listed.
handleWithErrorLogging_ListingCheckedLate(s, L) ==
    {[store |-> s, err |-> "scan", log |-> <<>>]}
    \cup UNION {RunsOf(s, nameOrder, migOrder, L) :
                  nameOrder \in NameOrders, migOrder \in NameOrders}
    \cup UNION {{[store |-> r.store, err |-> "channels", log |-> r.log] :
                    r \in RunsOf(s, nameOrder, migOrder, L)} :
                  nameOrder \in NameOrders, migOrder \in NameOrders}

\* Every way a pass can end when Slack lists the channels L: ScanAll fails,
\* GetAllChannels fails, or the calls are made up to the first that fails.
handleWithErrorLogging(s, L) ==
    {[store |-> s, err |-> "scan", log |-> <<>>],
     [store |-> s, err |-> "channels", log |-> <<>>]}
    \cup UNION {RunsOf(s, nameOrder, migOrder, L) :
                  nameOrder \in NameOrders, migOrder \in NameOrders}

(***************************************************************************)
(* Requests served one at a time: an operation runs to completion on the   *)
(* table and leaves its call and what it returned in last; Respond hands   *)
(* the response to the caller, after which the next request is taken.      *)
(***************************************************************************)
Idle == [op |-> "idle"]

Call(op, channelID, channelName, token, out) ==
    [op |-> op, ChannelID |-> channelID, ChannelName |-> channelName,
     Token |-> token, err |-> out.err, res |-> out.res, calls |-> out.calls]

\* Versions are unbounded in the program; the model stops at MaxVersion.
VersionsInBound(s) == \A r \in s : r.Version <= MaxVersion

\* Requests that run at the same time (the concurrent specification): each
\* is at its read step ("idle": none made yet), between its read and its
\* write ("write", holding the records read and the write to make), or has
\* returned ("done").
Procs == {"p1", "p2"}

\* The concurrent requests are slash commands given in one channel.
RaceNames == {"general"}
RaceIDs == {"C1"}

\* No dependency fails among the concurrent requests: generate() yields a token.
RaceGenStreams == {gen \in GenStreams : \A k \in DOMAIN gen : gen[k] # ""}

ProcIdle == [pc |-> "idle"]

Init ==
    /\ store = {}
    /\ last = Idle
    /\ procs = [p \in Procs |-> ProcIdle]

DoVerifyToken ==
    /\ last = Idle
    /\ UNCHANGED procs
    /\ \E channelName \in Names, givenToken \in GivenTokens, fault \in Faults :
        LET out == VerifyToken(store, channelName, givenToken, fault)
        IN /\ store' = out.store
           /\ last' = Call("VerifyToken", "", channelName, givenToken, out)

DoGenerateAndSaveToken ==
    /\ last = Idle
    /\ UNCHANGED procs
    /\ \E channelID \in ChannelIDs, channelName \in Names, gen \in GenStreams,
          fault \in Faults :
        LET out == GenerateAndSaveToken(store, channelID, channelName, gen, fault)
        IN /\ store' = out.store
           /\ last' = Call("GenerateAndSaveToken", channelID, channelName, "", out)

DoRegenerateToken ==
    /\ last = Idle
    /\ UNCHANGED procs
    /\ \E channelID \in ChannelIDs, channelName \in Names, gen \in GenStreams,
          fault \in Faults :
        LET out == RegenerateToken(store, channelID, channelName, gen, fault)
        IN /\ VersionsInBound(out.store)
           /\ store' = out.store
           /\ last' = Call("RegenerateToken", channelID, channelName, "", out)

DoRevokeToken ==
    /\ last = Idle
    /\ UNCHANGED procs
    /\ \E channelName \in Names, givenToken \in GivenTokens, fault \in Faults :
        LET out == RevokeToken(store, channelName, givenToken, fault)
        IN /\ store' = out.store
           /\ last' = Call("RevokeToken", "", channelName, givenToken, out)

DoRevokeRenamedToken ==
    /\ last = Idle
    /\ UNCHANGED procs
    /\ \E channelID \in ChannelIDs, channelName \in Names, givenToken \in GivenTokens,
          fault \in Faults :
        LET out == RevokeRenamedToken(store, channelID, channelName, givenToken, fault)
        IN /\ store' = out.store
           /\ last' = Call("RevokeRenamedToken", channelID, channelName, givenToken, out)

DoGetTokens ==
    /\ last = Idle
    /\ UNCHANGED procs
    /\ \E channelName \in Names, fault \in Faults :
        LET out == GetTokens(store, channelName, fault)
        IN /\ store' = out.store
           /\ last' = Call("GetTokens", "", channelName, "", out)

DoBatch ==
    /\ last = Idle
    /\ UNCHANGED procs
    /\ \E L \in Listings :
        \E out \in handleWithErrorLogging(store, L) :
            /\ store' = out.store
            /\ last' = [op |-> "Batch", channels |-> L, err |-> out.err, log |-> out.log]

Respond ==
    /\ last # Idle
    /\ last' = Idle
    /\ UNCHANGED <<store, procs>>

Next ==
    \/ DoGetTokens
    \/ DoVerifyToken
    \/ DoGenerateAndSaveToken
    \/ DoRegenerateToken
    \/ DoRevokeToken
    \/ DoRevokeRenamedToken
    \/ DoBatch
    \/ Respond

Spec == Init /\ [][Next]_vars

(***************************************************************************)
(* The functions of the service over given tables: GetTokens and           *)
(* generateWithRetry applied to the records a query returns, the table     *)
(* being any of the tables below and the generator any stream of values.   *)
(***************************************************************************)
MaxRecords == 3
InputVersions == {0, 1}

\* What a created_at attribute may hold: a timestamp the service wrote, or a
\* string that is no RFC 3339 time (the table is also written by hand).
Timestamps == {currentTimestamp, "yesterday"}

InputRecords ==
    {[Record("C1", n, t, v) EXCEPT !.CreatedAt = ts] :
        n \in Names, t \in Tokens, v \in InputVersions, ts \in Timestamps}

\* Tables of up to MaxRecords items, one item per key.
Tables ==
    {T \in SUBSET InputRecords :
        /\ Cardinality(T) <= MaxRecords
        /\ \A a \in T, b \in T : SameKey(a, b) => a = b}

\* Every sequence of generator outcomes over one call of generateWithRetry.
AllGenStreams == [1..maxGenerateAttempts -> Tokens \cup {""}]

InitInputs ==
    /\ store \in Tables
    /\ last = Idle
    /\ procs = [p \in Procs |-> ProcIdle]

DoGenerateWithRetry ==
    /\ last = Idle
    /\ UNCHANGED <<store, procs>>
    /\ \E channelName \in Names, gen \in AllGenStreams :
        LET recs == QueryByChannelName(store, channelName)
            g == generateWithRetry(recs, gen)
        IN last' = [op |-> "generateWithRetry", ChannelName |-> channelName,
                    gen |-> gen, token |-> g.token, err |-> g.err,
                    calls |-> g.calls]

\* The orders in which a query may hand back the records S.
RECURSIVE Orders(_)
Orders(S) ==
    IF S = {} THEN {<<>>}
    ELSE UNION {{<<r>> \o o : o \in Orders(S \ {r})} : r \in S}

\* RegenerateToken applied to the records of a name in any order; the step
\* it yields (a Save or a return) is kept, the table is not written.
DoRegenerateTokenFrom ==
    /\ last = Idle
    /\ UNCHANGED <<store, procs>>
    /\ \E channelID \in ChannelIDs, channelName \in Names, gen \in RaceGenStreams :
        \E recs \in Orders({r \in store : r.ChannelName = channelName}) :
            last' = [op |-> "RegenerateTokenFrom", ChannelID |-> channelID,
                     ChannelName |-> channelName, recs |-> recs,
                     step |-> RegenerateTokenFrom(recs, channelID, channelName, gen)]

NextInputs ==
    \/ DoGetTokens
    \/ DoGenerateWithRetry
    \/ DoRegenerateTokenFrom
    \/ Respond

SpecInputs == InitInputs /\ [][NextInputs]_vars

(***************************************************************************)
(* The HTTP front: the webhook endpoint POST /p/:channel_name/:token.      *)
(***************************************************************************)
\* Request bodies, as the bytes the client sent.  FormBody is the
\* form-encoding of payload=JSONBody, TwoPayloads carries the key twice,
\* PercentBody is a JSON object whose text holds a bare "%" (no valid query
\* string), ChannelBody a JSON object that names a channel of its own.
JSONBody == "{\"text\":\"hi\"}"
ChannelBody == "{\"channel\":\"C9\",\"text\":\"hi\"}"
PercentBody == "{\"text\":\"100%\"}"
FormBody == "payload=%7B%22text%22%3A%22hi%22%7D"
FormTextBody == "payload=oops"
TwoPayloads == "payload=%7B%7D&payload=%7B%7D"
Bodies ==
    {JSONBody, ChannelBody, PercentBody, FormBody, FormTextBody, TwoPayloads,
     "null", "oops", ""}

FormContentType == "application/x-www-form-urlencoded"
ContentTypes == {"application/json", FormContentType}

\* url.ParseQuery on the bodies above: an error for an invalid escape, else
\* the values under the key "payload" (a setting without "=" is a key).
ParseQuery(body) ==
    IF body = PercentBody THEN [err |-> "escape", payload |-> <<>>]
    ELSE IF body = FormBody THEN [err |-> "", payload |-> <<JSONBody>>]
    ELSE IF body = FormTextBody THEN [err |-> "", payload |-> <<"oops">>]
    ELSE IF body = TwoPayloads THEN [err |-> "", payload |-> <<"{}", "{}">>]
    ELSE [err |-> "", payload |-> <<>>]

\* json.Unmarshal into a map[string]interface{}: the map as a set of
\* <<key, value>> pairs; the JSON text null leaves the map nil without an error.
Unmarshal(body) ==
    IF body = JSONBody THEN [err |-> "", isNil |-> FALSE, fields |-> {<<"text", "hi">>}]
    ELSE IF body = ChannelBody
         THEN [err |-> "", isNil |-> FALSE, fields |-> {<<"channel", "C9">>, <<"text", "hi">>}]
    ELSE IF body = PercentBody
         THEN [err |-> "", isNil |-> FALSE, fields |-> {<<"text", "100%">>}]
    ELSE IF body = "{}" THEN [err |-> "", isNil |-> FALSE, fields |-> {}]
    ELSE IF body = "null" THEN [err |-> "", isNil |-> TRUE, fields |-> {}]
    ELSE [err |-> "json", isNil |-> TRUE, fields |-> {}]

extractPayloadValue(body) ==
    LET vs == ParseQuery(body)
    IN IF vs.err # "" THEN [err |-> "", body |-> body]
       ELSE IF Len(vs.payload) = 0 THEN [err |-> "", body |-> body]
       ELSE IF Len(vs.payload) # 1 THEN [err |-> "payload", body |-> ""]
       ELSE [err |-> "", body |-> vs.payload[1]]

\* Mutant: a body that is not JSON is forwarded as an empty payload.
parseRequestBody_Lenient(contentType, body) ==
    LET raw == IF contentType = FormContentType
               THEN extractPayloadValue(body)
               ELSE [err |-> "", body |-> body]
        payload == Unmarshal(raw.body)
    IN IF raw.err # "" \/ payload.err # ""
       THEN [err |-> "", isNil |-> FALSE, fields |-> {}]
       ELSE payload

parseRequestBody(contentType, body) ==
    LET raw == IF contentType = FormContentType
               THEN extractPayloadValue(body)
               ELSE [err |-> "", body |-> body]
    IN IF raw.err # "" THEN [err |-> raw.err, isNil |-> TRUE, fields |-> {}]
       ELSE Unmarshal(raw.body)

\* What the Slack API does with one chat.postMessage request: the request
\* times out, fails in transport, or is answered with a status and a body.
\* A body counts only in an answer with status 200.
StatusCodes == {200, 302, 400, 429, 500, 599, 600}
statusCodeSuccess == 200
SlackBodies == {"ok", "channel_not_found", "invalid_auth", "garbage"}
NoRequest == [kind |-> "none", StatusCode |-> 0, body |-> ""]
Upstreams ==
    {[kind |-> "timeout", StatusCode |-> 0, body |-> ""],
     [kind |-> "error", StatusCode |-> 0, body |-> ""]}
    \cup {[kind |-> "response", StatusCode |-> c, body |-> ""] :
            c \in StatusCodes \ {statusCodeSuccess}}
    \cup {[kind |-> "response", StatusCode |-> statusCodeSuccess, body |-> b] :
            b \in SlackBodies}

PostMessageResult(type, statusCode, reason) ==
    [Type |-> type, StatusCode |-> statusCode, Reason |-> reason]

\* slack.Kit.PostMessage: sent is the request made, if one was made (the
\* assignment payload["channel"] panics on a nil map before any request).
KitPostMessage(channelID, channelName, payload, upstream) ==
    IF payload.isNil
    THEN [panic |-> TRUE, err |-> "", sent |-> <<>>, result |-> PostMessageResult("OK", 0, "")]
    ELSE
    LET body == {f \in payload.fields : f[1] # "channel"} \cup {<<"channel", channelID>>}
        sent == <<body>>
    IN IF upstream.kind = "timeout"
       THEN [panic |-> FALSE, err |-> "", sent |-> sent,
             result |-> PostMessageResult("ServerTimeoutFailure", 0, "")]
       ELSE IF upstream.kind = "error"
       THEN [panic |-> FALSE, err |-> "http", sent |-> sent,
             result |-> PostMessageResult("OK", 0, "")]
       ELSE IF upstream.StatusCode # statusCodeSuccess
       THEN [panic |-> FALSE, err |-> "", sent |-> sent,
             result |-> PostMessageResult("ServerFailure", upstream.StatusCode, "")]
       ELSE IF upstream.body = "garbage"
       THEN [panic |-> FALSE, err |-> "unmarshal", sent |-> sent,
             result |-> PostMessageResult("OK", 0, "")]
       ELSE IF upstream.body # "ok"
       THEN [panic |-> FALSE, err |-> "", sent |-> sent,
             result |-> PostMessageResult("APIFailure", 0, upstream.body)]
       ELSE [panic |-> FALSE, err |-> "", sent |-> sent,
             result |-> PostMessageResult("OK", 0, "")]

\* What Webhook hands back: an HTTP status (0: none written) or an error;
\* posts are the PostMessage calls it made, each with the request it sent
\* and what the Slack API did with it.
Response(status, err, posts) == [status |-> status, err |-> err, posts |-> posts]

PostCall(channelID, channelName, pm, upstream) ==
    [ChannelID |-> channelID, ChannelName |-> channelName,
     sent |-> pm.sent, panic |-> pm.panic,
     upstream |-> IF pm.sent = <<>> THEN NoRequest ELSE upstream]

\* Mutant: every server failure is answered with 502.
WebhookResponse_AllBadGateway(result) ==
    IF result.Type = "OK" THEN [status |-> 200, err |-> ""]
    ELSE IF result.Type = "ServerTimeoutFailure" THEN [status |-> 504, err |-> ""]
    ELSE IF result.Type = "ServerFailure" THEN [status |-> 502, err |-> ""]
    ELSE IF result.Type = "APIFailure" THEN [status |-> 400, err |-> ""]
    ELSE [status |-> 0, err |-> "unexpected PostMessageResult type"]

\* The switch on result.Type.
WebhookResponse(result) ==
    IF result.Type = "OK" THEN [status |-> 200, err |-> ""]
    ELSE IF result.Type = "ServerTimeoutFailure" THEN [status |-> 504, err |-> ""]
    ELSE IF result.Type = "ServerFailure"
         THEN IF result.StatusCode >= 500 /\ result.StatusCode < 600
              THEN [status |-> 502, err |-> ""]
              ELSE IF result.StatusCode >= 400 /\ result.StatusCode < 500
                   THEN [status |-> result.StatusCode, err |-> ""]
                   ELSE [status |-> 0, err |-> "unexpected status code"]
    ELSE IF result.Type = "APIFailure" THEN [status |-> 400, err |-> ""]
    ELSE [status |-> 0, err |-> "unexpected PostMessageResult type"]

\* fault "query": QueryByChannelName fails; "read": reading the body fails.
WebhookFaults == {"", "query", "read"}

Webhook(s, channelName, token, contentType, body, fault, upstream) ==
    LET v == VerifyToken(s, channelName, token, fault)
        res == v.res
    IN IF v.err # "" THEN Response(0, v.err, <<>>)
       ELSE IF res.NotFound THEN Response(404, "", <<>>)
       ELSE IF res.Unmatch THEN Response(401, "", <<>>)
       ELSE IF fault = "read" THEN Response(0, "read", <<>>)
       ELSE LET payload == parseRequestBody(contentType, body)
            IN IF payload.err # "" THEN Response(400, "", <<>>)
               ELSE LET pm == KitPostMessage(res.ChannelID, res.ChannelName,
                                             payload, upstream)
                        posts == <<PostCall(res.ChannelID, res.ChannelName, pm, upstream)>>
                    IN IF pm.panic THEN Response(0, "panic", posts)
                       ELSE IF pm.err # "" THEN Response(0, pm.err, posts)
                       ELSE LET r == WebhookResponse(pm.result)
                            IN Response(r.status, r.err, posts)

DoWebhook ==
    /\ last = Idle
    /\ UNCHANGED <<store, procs>>
    /\ \E channelName \in Names, token \in GivenTokens,
          contentType \in ContentTypes, body \in Bodies,
          fault \in WebhookFaults, upstream \in Upstreams :
        LET out == Webhook(store, channelName, token, contentType, body,
                           fault, upstream)
        IN last' = [op |-> "Webhook", ChannelName |-> channelName,
                    Token |-> token, contentType |-> contentType,
                    body |-> body, fault |-> fault,
                    status |-> out.status, err |-> out.err, posts |-> out.posts]

(***************************************************************************)
(* The slash command /belldog-revoke-renamed <channel name> <token>.       *)
(***************************************************************************)
\* The free text of a command: pieces that are a run of whitespace or a
\* run of other characters; pieces with no whitespace between them read as
\* one word.
MaxTextLen == 5
Whitespace == " "
Pieces == {Whitespace, "general", "A"}
Texts == UNION {[1..n -> Pieces] : n \in 0..MaxTextLen}

\* strings.Fields: the maximal runs without whitespace, in order.
RECURSIVE FieldsFrom(_, _, _, _)
FieldsFrom(text, i, word, fields) ==
    LET closed == IF word = "" THEN fields ELSE Append(fields, word)
    IN IF i > Len(text) THEN closed
       ELSE IF text[i] = Whitespace THEN FieldsFrom(text, i + 1, "", closed)
       ELSE FieldsFrom(text, i + 1, word \o text[i], fields)

Fields(text) == FieldsFrom(text, 1, "", <<>>)

slashCommandArgSize == 2

\* What a command handler hands back: the message it answers with (its
\* kind) or an error; calls are the token service calls it made.
CmdResponse(msg, err, calls) == [msg |-> msg, err |-> err, calls |-> calls]

\* Mutant: arguments after the second are ignored.
processCmdRevokeRenamed_ExtraIgnored(s, channelID, text, fault) ==
    LET args == Fields(text)
    IN IF Len(args) < slashCommandArgSize
       THEN [store |-> s, resp |-> CmdResponse("Invalid arguments", "", <<>>)]
       ELSE LET out == RevokeRenamedToken(s, channelID, args[1], args[2], fault)
                calls == <<[op |-> "RevokeRenamedToken", ChannelID |-> channelID,
                            ChannelName |-> args[1], Token |-> args[2]]>>
            IN [store |-> out.store, resp |-> CmdResponse("Token revoked", out.err, calls)]

processCmdRevokeRenamed(s, channelID, text, fault) ==
    LET args == Fields(text)
    IN IF Len(args) # slashCommandArgSize
       THEN [store |-> s, resp |-> CmdResponse("Invalid arguments", "", <<>>)]
       ELSE LET out == RevokeRenamedToken(s, channelID, args[1], args[2], fault)
                calls == <<[op |-> "RevokeRenamedToken", ChannelID |-> channelID,
                            ChannelName |-> args[1], Token |-> args[2]]>>
            IN IF out.err # ""
               THEN [store |-> out.store, resp |-> CmdResponse("", out.err, calls)]
               ELSE IF out.res.NotFound
               THEN [store |-> out.store, resp |-> CmdResponse("No pair found", "", calls)]
               ELSE IF out.res.ChannelIDUnmatch
               THEN [store |-> out.store,
                     resp |-> CmdResponse("Found pair but this channel does not own the token",
                                          "", calls)]
               ELSE [store |-> out.store, resp |-> CmdResponse("Token revoked", "", calls)]

DoCmdRevokeRenamed ==
    /\ last = Idle
    /\ UNCHANGED procs
    /\ \E channelID \in ChannelIDs, text \in Texts, fault \in Faults :
        LET out == processCmdRevokeRenamed(store, channelID, text, fault)
        IN /\ store' = out.store
           /\ last' = [op |-> "CmdRevokeRenamed", ChannelID |-> channelID,
                       Text |-> text, msg |-> out.resp.msg, err |-> out.resp.err,
                       calls |-> out.resp.calls]

NextHandler ==
    \/ DoGenerateAndSaveToken
    \/ DoRegenerateToken
    \/ DoWebhook
    \/ DoCmdRevokeRenamed
    \/ Respond

SpecHandler == Init /\ [][NextHandler]_vars

(***************************************************************************)
(* Properties of the requests served one at a time (Spec).                 *)
(***************************************************************************)
Group(s, channelName) == {r \in s : r.ChannelName = channelName}

Matched(res) == ~res.NotFound /\ ~res.Unmatch

\* C1: after any sequence of lifecycle operations and reconciliation passes,
\* each run to completion, from the empty table, every channel name has at
\* most 2 records.
C1_AtMostTwoRecords ==
    \A channelName \in Names : Cardinality(Group(store, channelName)) <= 2

\* A reconciliation pass has run and left a channel name with two records.
C1_Witness ==
    /\ last.op = "Batch"
    /\ last.err = ""
    /\ \E channelName \in Names : Cardinality(Group(store, channelName)) = 2

\* C4: VerifyToken, when the query succeeds, returns NotFound exactly when the
\* name has no record, Matched exactly when some record of the name holds the
\* given token (then with the channel id and name of such a record), wherever
\* that record is in the query result, and Unmatch otherwise.
C4_VerifyToken ==
    (last.op = "VerifyToken" /\ last.err = "") =>
        LET G == Group(store, last.ChannelName)
            M == {r \in G : r.Token = last.Token}
        IN /\ last.res.NotFound <=> G = {}
           /\ Matched(last.res) <=> M # {}
           /\ Matched(last.res) =>
                \E r \in M : /\ last.res.ChannelID = r.ChannelID
                             /\ last.res.ChannelName = r.ChannelName
           /\ last.res.Unmatch <=> (G # {} /\ M = {})

\* VerifyToken matched the record that comes second in the query result.
C4_Witness ==
    /\ last.op = "VerifyToken"
    /\ last.err = ""
    /\ Matched(last.res)
    /\ LET recs == QueryByChannelName(store, last.ChannelName)
       IN Len(recs) = 2 /\ recs[2].Token = last.Token /\ recs[1].Token # last.Token

\* C5: GenerateAndSaveToken for a name without records, when no dependency
\* fails, adds exactly one record, of version 0, with the caller's channel id
\* and the returned token, and returns IsGenerated = true.
C5_GenerateNew ==
    [][(/\ last'.op = "GenerateAndSaveToken"
        /\ last'.err = ""
        /\ Group(store, last'.ChannelName) = {})
       => /\ last'.res.IsGenerated
          /\ last'.res.Token \in Tokens
          /\ Record(last'.ChannelID, last'.ChannelName, last'.res.Token, 0) \notin store
          /\ store' = store \cup {Record(last'.ChannelID, last'.ChannelName,
                                         last'.res.Token, 0)}]_vars

\* GenerateAndSaveToken has created the only record of a name.
C5_Witness ==
    /\ last.op = "GenerateAndSaveToken"
    /\ last.err = ""
    /\ last.res.IsGenerated
    /\ Group(store, last.ChannelName) =
         {Record(last.ChannelID, last.ChannelName, last.res.Token, 0)}

\* C6: GenerateAndSaveToken for a name that has records, when the query
\* succeeds, returns IsGenerated = false with the token of the first existing
\* record (the one of the lowest version) and leaves the table unchanged.
C6_GenerateAgain ==
    [][(/\ last'.op = "GenerateAndSaveToken"
        /\ last'.err # "query"
        /\ Group(store, last'.ChannelName) # {})
       => LET G == Group(store, last'.ChannelName)
              first == CHOOSE r \in G : \A o \in G : r.Version <= o.Version
          IN /\ last'.err = ""
             /\ ~last'.res.IsGenerated
             /\ last'.res.Token = first.Token
             /\ store' = store]_vars

\* GenerateAndSaveToken returned the existing token of a name with two records.
C6_Witness ==
    /\ last.op = "GenerateAndSaveToken"
    /\ last.err = ""
    /\ ~last.res.IsGenerated
    /\ Cardinality(Group(store, last.ChannelName)) = 2
    /\ \E r \in Group(store, last.ChannelName) : r.Token = last.res.Token

\* C7: RegenerateToken for a name with exactly one record, when it returns no
\* error, adds one record whose version is that record's version + 1 and whose
\* token differs from that record's, returns the new token, and leaves the
\* first record in place.
C7_Regenerate ==
    [][(/\ last'.op = "RegenerateToken"
        /\ last'.err = ""
        /\ Cardinality(Group(store, last'.ChannelName)) = 1)
       => LET first == CHOOSE r \in Group(store, last'.ChannelName) : TRUE
              new == Record(last'.ChannelID, last'.ChannelName, last'.res.Token,
                            first.Version + 1)
          IN /\ ~last'.res.NoTokenFound
             /\ ~last'.res.TooManyToken
             /\ last'.res.Token \in Tokens
             /\ last'.res.Token # first.Token
             /\ store' = store \cup {new}
             /\ Group(store', last'.ChannelName) = {first, new}
             /\ first # new]_vars

\* RegenerateToken has added a record next to one whose version is not 0.
C7_Witness ==
    /\ last.op = "RegenerateToken"
    /\ last.err = ""
    /\ last.res.Token \in Tokens
    /\ \E r, n \in Group(store, last.ChannelName) :
         /\ r.Version > 0
         /\ n.Version = r.Version + 1
         /\ n.Token = last.res.Token
         /\ n.Token # r.Token

\* C8: RegenerateToken, when the query succeeds, returns NoTokenFound for a
\* name without records and TooManyToken for a name with two or more; in both
\* cases without an error, without a token, and with the table unchanged.
C8_RegenerateRefused ==
    [][(/\ last'.op = "RegenerateToken"
        /\ last'.err # "query"
        /\ Cardinality(Group(store, last'.ChannelName)) # 1)
       => /\ last'.err = ""
          /\ last'.res.Token = ""
          /\ store' = store
          /\ IF Group(store, last'.ChannelName) = {}
             THEN last'.res.NoTokenFound /\ ~last'.res.TooManyToken
             ELSE last'.res.TooManyToken /\ ~last'.res.NoTokenFound]_vars

\* RegenerateToken returned TooManyToken for a name with two records.
C8_Witness ==
    /\ last.op = "RegenerateToken"
    /\ last.err = ""
    /\ last.res.TooManyToken
    /\ Cardinality(Group(store, last.ChannelName)) = 2

\* C9: RevokeToken, when it returns no error: if a record of the name holds the
\* given token, that record and no other is removed and the result is success;
\* otherwise the result is NotFound and the table is unchanged.
C9_RevokeToken ==
    [][(last'.op = "RevokeToken" /\ last'.err = "")
       => LET M == {r \in Group(store, last'.ChannelName) : r.Token = last'.Token}
          IN IF M # {}
             THEN /\ ~last'.res.NotFound
                  /\ Cardinality(M) = 1
                  /\ store' = store \ M
             ELSE /\ last'.res.NotFound
                  /\ store' = store]_vars

\* RevokeToken removed the later record of a name and the earlier one remains.
C9_Witness ==
    /\ last.op = "RevokeToken"
    /\ last.err = ""
    /\ ~last.res.NotFound
    /\ \E r \in Group(store, last.ChannelName) : r.Version = 0 /\ r.Token # last.Token
    /\ Cardinality(Group(store, last.ChannelName)) = 1

\* C10: in the state RevokeToken(name, token) leaves when it returns without
\* error, VerifyToken(name, token) returns NotFound or Unmatch, never Matched.
C10_RevocationEffective ==
    (last.op = "RevokeToken" /\ last.err = "") =>
        LET v == VerifyToken(store, last.ChannelName, last.Token, "")
        IN v.err = "" /\ ~Matched(v.res) /\ (v.res.NotFound \/ v.res.Unmatch)

\* RevokeToken removed a record and the name still has another one.
C10_Witness ==
    /\ last.op = "RevokeToken"
    /\ last.err = ""
    /\ ~last.res.NotFound
    /\ Group(store, last.ChannelName) # {}
    /\ VerifyToken(store, last.ChannelName, last.Token, "").res.Unmatch

C13_VersionsDistinctAndStepByOne ==
    [][/\ \A r1, r2 \in store' :
            (r1.ChannelName = r2.ChannelName /\ r1.Version = r2.Version) => r1 = r2
       /\ (/\ last'.op = "RegenerateToken"
           /\ last'.err = ""
           /\ last'.res.Token # "")
          => \E old \in store, new \in store' :
                /\ Group(store, last'.ChannelName) = {old}
                /\ new.Version = old.Version + 1
                /\ new.Token = last'.res.Token
                /\ new \notin store
                /\ store' = store \cup {new}]_vars

\* RegenerateToken succeeded for a name whose only record had version 1: the
\* name now has the versions 1 and 2.
C13_Witness ==
    /\ last.op = "RegenerateToken"
    /\ last.err = ""
    /\ last.res.Token # ""
    /\ {r.Version : r \in Group(store, last.ChannelName)} = {1, 2}

\* C14: after any sequence of operations each run to completion from the
\* empty table, whatever tokens the generator returns, the records of one
\* channel name hold pairwise distinct tokens.
C14_TokensDistinct ==
    \A r1, r2 \in store :
        (r1.ChannelName = r2.ChannelName /\ r1.Token = r2.Token) => r1 = r2

\* RegenerateToken has given up after the generator returned the stored token
\* on every attempt, next to a name that holds two records with two tokens.
C14_Witness ==
    /\ last.op = "RegenerateToken"
    /\ last.err = "collision"
    /\ Cardinality(Group(store, last.ChannelName)) = 1
    /\ \E channelName \in Names :
         {r.Token : r \in Group(store, channelName)} = Tokens

(***************************************************************************)
(* Properties of the reconciliation pass.  A pass is the step that leaves  *)
(* last.op = "Batch": store is the table it scanned, last'.channels the    *)
(* channels Slack listed, last'.log the calls it made, store' the table it *)
(* left.                                                                   *)
(***************************************************************************)
\* The record's channel is listed as archived.
ListedArchived(r, L) == \E c \in L : c.ID = r.ChannelID /\ c.IsArchived

\* The posts of the log whose text is of the given kind.
PostsOfKind(log, kind) ==
    {i \in DOMAIN log : log[i].call.type = "post" /\ log[i].call.text.kind = kind}

ArchivedText(r, c) ==
    [kind |-> "archived", channel_id |-> r.ChannelID,
     record_channel_name |-> r.ChannelName, slack_channel_name |-> c.Name]

\* C15: in a pass that completes without error, every scanned record whose
\* channel id is listed with the archived flag is deleted, its Delete comes
\* once and right after one ops-channel notification about it, nothing else is
\* deleted, and no migration or rename notification concerns it, whether or
\* not the listed name is the record's stored name.
C15_ArchivedDeleted ==
    [][(last'.op = "Batch" /\ last'.err = "")
       => LET L == last'.channels
              log == last'.log
              A == {r \in store : ListedArchived(r, L)}
          IN /\ store' = store \ A
             /\ Cardinality(PostsOfKind(log, "archived")) = Cardinality(A)
             /\ \A r \in A :
                  LET c == CHOOSE x \in L : x.ID = r.ChannelID
                      D == {i \in DOMAIN log : log[i].call = DeleteStep(r)}
                  IN /\ Cardinality(D) = 1
                     /\ \A i \in D :
                          /\ i > 1
                          /\ log[i - 1].call =
                               PostStep(OpsNotificationChannelName,
                                        OpsNotificationChannelName, ArchivedText(r, c))
                     /\ \A i \in PostsOfKind(log, "migration")
                               \cup PostsOfKind(log, "migrationOps") :
                          ~(/\ log[i].call.text.channel_id = r.ChannelID
                            /\ log[i].call.text.channel_name = r.ChannelName)
                     /\ \A i \in PostsOfKind(log, "rename")
                               \cup PostsOfKind(log, "renameOps") :
                          ~(/\ log[i].call.text.channel_id = r.ChannelID
                            /\ log[i].call.text.old_channel_name = r.ChannelName)]_vars

\* A pass has completed in which a record was deleted whose channel is listed
\* as archived under another name than the record's, next to a notification
\* about a rename.
C15_Witness ==
    /\ last.op = "Batch"
    /\ last.err = ""
    /\ PostsOfKind(last.log, "rename") # {}
    /\ \E i \in PostsOfKind(last.log, "archived") :
         last.log[i].call.text.record_channel_name
            # last.log[i].call.text.slack_channel_name

\* The non-archived records of the name that share the channel id with a
\* record of the name holding another token.
MigratingRecords(s, L, channelName) ==
    {r \in Group(s, channelName) :
        /\ ~ListedArchived(r, L)
        /\ \E o \in Group(s, channelName) :
              /\ ~ListedArchived(o, L)
              /\ o.ChannelID = r.ChannelID
              /\ o.Token # r.Token}

\* C16: in a pass that completes without error, for each channel name that has
\* two non-archived records with the same channel id and different tokens,
\* exactly one migration notification is emitted, as one message to that
\* channel followed by one to the ops channel, however many such records there
\* are; for a channel name without such a pair none is emitted.
C16_OneMigrationPerName ==
    [][(last'.op = "Batch" /\ last'.err = "")
       => LET L == last'.channels
              log == last'.log
          IN \A channelName \in Names :
               LET M == MigratingRecords(store, L, channelName)
                   P == {i \in PostsOfKind(log, "migration") :
                            log[i].call.text.channel_name = channelName}
                   O == {i \in PostsOfKind(log, "migrationOps") :
                            log[i].call.text.channel_name = channelName}
               IN IF M = {}
                  THEN P = {} /\ O = {}
                  ELSE /\ Cardinality(P) = 1
                       /\ Cardinality(O) = 1
                       /\ \A i \in P :
                            /\ log[i].call.ChannelName = channelName
                            /\ \E r \in M : /\ log[i].call.ChannelID = r.ChannelID
                                            /\ log[i].call.text.channel_id = r.ChannelID
                            /\ i + 1 \in O
                            /\ log[i + 1].call.ChannelID = OpsNotificationChannelName
                            /\ log[i + 1].call.ChannelName = OpsNotificationChannelName
                            /\ log[i + 1].call.text.channel_id
                                 = log[i].call.text.channel_id]_vars

\* A pass has completed that reported a migration for two channel names, while
\* the table holds two records for each.
C16_Witness ==
    /\ last.op = "Batch"
    /\ last.err = ""
    /\ \A channelName \in Names :
         /\ Cardinality(Group(store, channelName)) = 2
         /\ \E i \in PostsOfKind(last.log, "migration") :
              last.log[i].call.text.channel_name = channelName

RenameText(r, c) ==
    [kind |-> "rename", channel_id |-> r.ChannelID, old_channel_name |-> r.ChannelName,
     renamed_channel_name |-> c.Name, token |-> r.Token]

RenameOpsText(r, c) ==
    [kind |-> "renameOps", channel_id |-> r.ChannelID,
     old_channel_name |-> r.ChannelName, renamed_channel_name |-> c.Name]

\* The pairs of a non-archived record and the listed channel of its id.
ListedPairs(s, L) ==
    {rc \in s \X L : rc[2].ID = rc[1].ChannelID /\ ~ListedArchived(rc[1], L)}

\* C17: in a pass that completes without error, for each non-archived record
\* r and listed channel c of r's channel id whose name differs from r's stored
\* name, exactly one rename event is emitted, carrying r's channel id, r's
\* stored name as old name, c's name as new name and r's token, as one message
\* to that channel id under the new name followed by one message to the ops
\* channel; a record whose stored name is the listed name yields none, and
\* there is no other rename message.
C17_OneRenamePerRecord ==
    [][(last'.op = "Batch" /\ last'.err = "")
       => LET L == last'.channels
              log == last'.log
              R == {rc \in ListedPairs(store, L) : rc[2].Name # rc[1].ChannelName}
          IN /\ Cardinality(PostsOfKind(log, "rename")) = Cardinality(R)
             /\ Cardinality(PostsOfKind(log, "renameOps")) = Cardinality(R)
             /\ \A rc \in ListedPairs(store, L) :
                  LET r == rc[1]
                      c == rc[2]
                      E == {i \in DOMAIN log :
                              log[i].call = PostStep(r.ChannelID, c.Name, RenameText(r, c))}
                      T == {i \in PostsOfKind(log, "rename") :
                              /\ log[i].call.text.channel_id = r.ChannelID
                              /\ log[i].call.text.old_channel_name = r.ChannelName
                              /\ log[i].call.text.token = r.Token}
                  IN IF c.Name # r.ChannelName
                     THEN /\ Cardinality(E) = 1
                          /\ T = E
                          /\ \A i \in E :
                               /\ i < Len(log)
                               /\ log[i + 1].call =
                                    PostStep(OpsNotificationChannelName,
                                             OpsNotificationChannelName,
                                             RenameOpsText(r, c))
                     ELSE T = {}]_vars

\* A pass has completed that reported the rename of a channel with two records
\* and left alone a record whose stored name is the listed one.
C17_Witness ==
    /\ last.op = "Batch"
    /\ last.err = ""
    /\ Cardinality(PostsOfKind(last.log, "rename")) = 2
    /\ \E r \in store, c \in last.channels :
         /\ c.ID = r.ChannelID
         /\ c.Name = r.ChannelName
         /\ ~c.IsArchived
    /\ \E r1, r2 \in store, c \in last.channels :
         /\ r1 # r2
         /\ r1.ChannelName = r2.ChannelName
         /\ c.ID = r1.ChannelID
         /\ c.ID = r2.ChannelID
         /\ c.Name # r1.ChannelName

\* Every record's channel is listed, not archived, under the record's stored
\* name, and no two records of one channel differ in token.
NoDrift(s, L) ==
    /\ \A r \in s : \E c \in L : /\ c.ID = r.ChannelID
                                /\ c.Name = r.ChannelName
                                /\ ~c.IsArchived
    /\ \A r1, r2 \in s : r1.ChannelID = r2.ChannelID => r1.Token = r2.Token

\* C18: a pass over a table in which every record's channel is listed
\* non-archived under the same name and no two records of one channel differ
\* in token, when the scan and the channel listing succeed, sends no message,
\* deletes nothing and returns no error.
C18_NoDriftNoEvents ==
    [][(/\ last'.op = "Batch"
        /\ last'.err \notin {"scan", "channels"}
        /\ NoDrift(store, last'.channels))
       => /\ last'.err = ""
          /\ last'.log = <<>>
          /\ store' = store]_vars

\* A pass has run over a table with two records of one name, both listed
\* under that name, and made no call.
C18_Witness ==
    /\ last.op = "Batch"
    /\ last.err = ""
    /\ last.log = <<>>
    /\ NoDrift(store, last.channels)
    /\ \E channelName \in Names : Cardinality(Group(store, channelName)) = 2

\* The part of a pass a call belongs to: 1 archived records, 2 migrations,
\* 3 renames.
Phase(call) ==
    IF call.type = "delete" THEN 1
    ELSE IF call.text.kind = "archived" THEN 1
    ELSE IF call.text.kind \in {"migration", "migrationOps"} THEN 2
    ELSE 3

\* C19: in every pass, the notifications and deletions of archived records
\* all come before any migration notification, and the migration
\* notifications all come before any rename notification.
C19_ArchivedMigrationsRenames ==
    last.op = "Batch" =>
        \A i, j \in DOMAIN last.log :
            i < j => Phase(last.log[i].call) <= Phase(last.log[j].call)

\* A pass has deleted an archived record, reported a migration and reported a
\* rename.
C19_Witness ==
    /\ last.op = "Batch"
    /\ \E i \in DOMAIN last.log : last.log[i].call.type = "delete"
    /\ PostsOfKind(last.log, "migration") # {}
    /\ PostsOfKind(last.log, "renameOps") # {}

\* The errors a notification send ends with: the transport's, or the one made
\* of a result that is not OK.
SendErrors == {"post", "slack server timeout", "slack server error", "slack API error"}

\* C20: when a notification send of a pass returns an error or a result that
\* is not OK, the pass returns that error at once: the failed send is the last
\* call it makes (no further send, no further Delete, and no ops message after
\* a failed channel message), and the table has lost only the records deleted
\* before.
C20_AbortOnFailedSend ==
    [][last'.op = "Batch"
       => LET log == last'.log
              F == {i \in DOMAIN log : log[i].err # ""}
              D == {i \in DOMAIN log : log[i].call.type = "delete" /\ log[i].err = ""}
          IN /\ \A i \in F : i = Len(log) /\ last'.err = log[i].err
             /\ \A i \in F : log[i].call.type = "post" <=> log[i].err \in SendErrors
             /\ last'.err \in SendErrors =>
                  /\ F = {Len(log)}
                  /\ log[Len(log)].call.type = "post"
             /\ store' = store \ {log[i].call.record : i \in D}]_vars

\* A pass has ended with the error of a failed channel message, after deleting
\* a record, without sending the ops message and without reporting a rename
\* that the table and the listing call for.
C20_Witness ==
    /\ last.op = "Batch"
    /\ last.err = "slack server timeout"
    /\ \E i \in DOMAIN last.log : last.log[i].call.type = "delete"
    /\ last.log[Len(last.log)].call.ChannelID # OpsNotificationChannelName
    /\ last.log[Len(last.log)].call.text.kind = "migration"
    /\ PostsOfKind(last.log, "rename") = {}
    /\ \E rc \in ListedPairs(store, last.channels) : rc[2].Name # rc[1].ChannelName

\* C21: when ScanAll or the channel listing fails, the pass returns the error
\* without sending a message and without deleting a record.
C21_AbortOnFailedFetch ==
    [][(last'.op = "Batch" /\ last'.err \in {"scan", "channels"})
       => /\ last'.log = <<>>
          /\ store' = store]_vars

\* A pass has ended with the error of the channel listing over a table that
\* holds two records of one channel with two tokens.
C21_Witness ==
    /\ last.op = "Batch"
    /\ last.err = "channels"
    /\ last.log = <<>>
    /\ \E r1, r2 \in store :
         /\ r1.ChannelName = r2.ChannelName
         /\ r1.ChannelID = r2.ChannelID
         /\ r1.Token # r2.Token

\* The calls of a log that notify of a migration or of a rename.
Notifications(log) ==
    {log[i].call : i \in PostsOfKind(log, "migration") \cup PostsOfKind(log, "migrationOps")
                       \cup PostsOfKind(log, "rename") \cup PostsOfKind(log, "renameOps")}

\* C22: in the state a pass leaves when it completes without error, a pass
\* over the same channel listing makes no Delete and sends no notification of
\* an archived record, and when it completes it sends the same set of
\* migration and rename notifications as the first.
C22_Rerunnable ==
    (last.op = "Batch" /\ last.err = "") =>
        \A again \in handleWithErrorLogging(store, last.channels) :
            /\ again.store = store
            /\ \A i \in DOMAIN again.log : again.log[i].call.type # "delete"
            /\ PostsOfKind(again.log, "archived") = {}
            /\ Notifications(again.log) \subseteq Notifications(last.log)
            /\ again.err = "" => Notifications(again.log) = Notifications(last.log)

\* A pass has completed that deleted an archived record and notified of a
\* migration and of a rename.
C22_Witness ==
    /\ last.op = "Batch"
    /\ last.err = ""
    /\ \E i \in DOMAIN last.log : last.log[i].call.type = "delete"
    /\ PostsOfKind(last.log, "migration") # {}
    /\ PostsOfKind(last.log, "rename") # {}

(***************************************************************************)
(* Dependency failures and the storage calls of an operation.              *)
(***************************************************************************)
LifecycleOps ==
    {"GetTokens", "VerifyToken", "GenerateAndSaveToken", "RegenerateToken",
     "RevokeToken", "RevokeRenamedToken"}

\* The value an operation returns beside an error: the zero value of its
\* result type (an empty slice for GetTokens).
ZeroResult(op) ==
    IF op = "GetTokens" THEN <<>>
    ELSE IF op = "VerifyToken" THEN VerifyResult(FALSE, FALSE, "", "")
    ELSE IF op = "GenerateAndSaveToken" THEN GenerateResult(FALSE, "")
    ELSE IF op = "RegenerateToken" THEN RegenerateResult(FALSE, FALSE, "")
    ELSE IF op = "RevokeToken" THEN RevokeResult(FALSE)
    ELSE RevokeRenamedResult(FALSE, FALSE, "")

CallsOf(calls, names) == {i \in 1..Len(calls) : calls[i].call \in names}

\* C27: when QueryByChannelName fails, the operation returns an error with
\* the zero value of its result (no flag set, no token, no channel), makes
\* no Save and no Delete, and the table is as it was.
C27_QueryFailure ==
    [][(last'.op \in LifecycleOps /\ last'.calls[1].failed) =>
        /\ last'.calls[1].call = "QueryByChannelName"
        /\ last'.err # ""
        /\ last'.res = ZeroResult(last'.op)
        /\ CallsOf(last'.calls, {"Save", "Delete"}) = {}
        /\ store' = store
    ]_vars

\* The query of a RevokeToken call failed while a record carrying the given
\* token was stored.
C27_Witness ==
    /\ last.op = "RevokeToken"
    /\ last.calls[1].failed
    /\ \E r \in store : r.ChannelName = last.ChannelName /\ r.Token = last.Token

\* C28: when the Save of GenerateAndSaveToken or RegenerateToken fails, the
\* operation returns an error and no token, has made one query and that one
\* Save and no other storage call, and the table is as it was.
C28_SaveFailure ==
    [][(/\ last'.op \in {"GenerateAndSaveToken", "RegenerateToken"}
        /\ \E i \in 1..Len(last'.calls) :
                last'.calls[i].call = "Save" /\ last'.calls[i].failed) =>
        /\ last'.err # ""
        /\ last'.res = ZeroResult(last'.op)
        /\ last'.res.Token = ""
        /\ last'.calls = <<StorageCall("QueryByChannelName", ""), StorageCall("Save", "save")>>
        /\ store' = store
    ]_vars

\* The Save of a RegenerateToken call failed; the one record of the name is
\* still alone.
C28_Witness ==
    /\ last.op = "RegenerateToken"
    /\ last.err = "save"
    /\ Cardinality(Group(store, last.ChannelName)) = 1

\* C30: an operation of the service makes exactly one QueryByChannelName
\* call, as its first storage call, and at most one Save or Delete.
C30_OneQueryAtMostOneWrite ==
    (last.op \in LifecycleOps) =>
        /\ Len(last.calls) >= 1
        /\ CallsOf(last.calls, {"QueryByChannelName"}) = {1}
        /\ Cardinality(CallsOf(last.calls, {"Save", "Delete"})) <= 1
        /\ \A i \in 1..Len(last.calls) :
                last.calls[i].call \in {"QueryByChannelName", "Save", "Delete"}

\* A RevokeToken call queried, then deleted.
C30_Witness ==
    /\ last.op = "RevokeToken"
    /\ last.calls = <<StorageCall("QueryByChannelName", ""), StorageCall("Delete", "")>>

\* C32: when the query succeeds and no record of the given name holds the
\* given token (the name has no records, or none with the token),
\* RevokeRenamedToken returns NotFound and the table is as it was; whenever
\* it returns ChannelIDUnmatch, a record of the name holds the token,
\* LinkedChannelID is the channel id of that record, and the table is as it
\* was.
C32_NotFoundAndUnmatchKeepStore ==
    [][(last'.op = "RevokeRenamedToken") =>
        LET M == {r \in Group(store, last'.ChannelName) : r.Token = last'.Token}
        IN /\ (~last'.calls[1].failed /\ M = {}) =>
                /\ last'.err = ""
                /\ last'.res = RevokeRenamedResult(TRUE, FALSE, "")
                /\ store' = store
           /\ last'.res.ChannelIDUnmatch =>
                /\ last'.err = ""
                /\ M # {}
                /\ \A r \in M : last'.res.LinkedChannelID = r.ChannelID
                /\ store' = store
    ]_vars

\* The name holds two records, neither with the given token: NotFound.
C32_Witness ==
    /\ last.op = "RevokeRenamedToken"
    /\ last.err = ""
    /\ last.res.NotFound
    /\ Cardinality(Group(store, last.ChannelName)) = 2

\* The records of every name other than channelName.
OtherNames(s, channelName) == {r \in s : r.ChannelName # channelName}

\* C33: an operation called for a channel name leaves the records of every
\* other name as they were, and VerifyToken and GetTokens leave the whole
\* table as it was.
C33_OtherNamesUntouched ==
    [][(last'.op \in LifecycleOps) =>
        /\ OtherNames(store', last'.ChannelName) = OtherNames(store, last'.ChannelName)
        /\ last'.op \in {"VerifyToken", "GetTokens"} => store' = store
    ]_vars

\* A RegenerateToken call saved a second record of its name while the other
\* name holds two records.
C33_Witness ==
    /\ last.op = "RegenerateToken"
    /\ last.err = ""
    /\ last.res.Token # ""
    /\ Cardinality(Group(store, last.ChannelName)) = 2
    /\ Cardinality(OtherNames(store, last.ChannelName)) = 2

\* C34: in a pass, every Delete call comes right after the ops notification
\* about the same record, and that notification returned OK; when the ops
\* notification about an archived record fails, the pass returns an error,
\* no Delete was called for that record and the record is in the table.
C34_DeleteAfterNotification ==
    (last.op = "Batch") =>
        LET log == last.log
            L == last.channels
        IN /\ \A i \in DOMAIN log :
                log[i].call.type = "delete" =>
                    /\ i > 1
                    /\ log[i - 1].err = ""
                    /\ log[i - 1].call.type = "post"
                    /\ log[i - 1].call.ChannelID = OpsNotificationChannelName
                    /\ log[i - 1].call.text.kind = "archived"
                    /\ log[i - 1].call.text.channel_id = log[i].call.record.ChannelID
                    /\ log[i - 1].call.text.record_channel_name
                            = log[i].call.record.ChannelName
           /\ \A i \in PostsOfKind(log, "archived") :
                log[i].err # "" =>
                    /\ last.err # ""
                    /\ i = Len(log)
                    /\ \E r \in store :
                        /\ ListedArchived(r, L)
                        /\ r.ChannelID = log[i].call.text.channel_id
                        /\ r.ChannelName = log[i].call.text.record_channel_name
                        /\ \A j \in DOMAIN log : log[j].call # DeleteStep(r)

\* The ops notification about a second archived record failed after a first
\* one was deleted.
C34_Witness ==
    /\ last.op = "Batch"
    /\ last.err # ""
    /\ Len(last.log) = 3
    /\ last.log[2].call.type = "delete"
    /\ last.log[3].call.type = "post"
    /\ last.log[3].call.text.kind = "archived"
    /\ last.log[3].err # ""

\* C35: a pass calls Delete only for records of the table it scanned whose
\* channel id is the id of a listed channel with the archived flag set; a
\* record whose channel id is the id of no listed channel is in the table
\* after the pass, and no archived notification and no rename notification
\* names its channel id.
C35_DeleteOnlyListedArchived ==
    [][(last'.op = "Batch") =>
        LET log == last'.log
            L == last'.channels
        IN /\ \A i \in DOMAIN log :
                log[i].call.type = "delete" =>
                    /\ log[i].call.record \in store
                    /\ \E c \in L : c.ID = log[i].call.record.ChannelID /\ c.IsArchived
           /\ \A r \in store :
                (\A c \in L : c.ID # r.ChannelID) =>
                    /\ r \in store'
                    /\ \A i \in PostsOfKind(log, "archived") \cup PostsOfKind(log, "rename")
                                \cup PostsOfKind(log, "renameOps") :
                            log[i].call.text.channel_id # r.ChannelID
    ]_vars

\* A pass has completed that deleted the record of an archived channel
\* while two records of an unlisted channel stayed.
C35_Witness ==
    /\ last.op = "Batch"
    /\ last.err = ""
    /\ \E i \in DOMAIN last.log : last.log[i].call.type = "delete"
    /\ Cardinality({r \in store : \A c \in last.channels : c.ID # r.ChannelID}) = 2

\* The records of the name carry one channel id.
OneID(s, channelName) ==
    \A a \in Group(s, channelName), b \in Group(s, channelName) : a.ChannelID = b.ChannelID

\* C36, as stated: all records of one channel name carry the same channel
\* id.
C36_OneIDPerName == \A n \in Names : OneID(store, n)

\* C36, amended: a record keeps the channel id it was saved with, and the
\* record a RegenerateToken call saves carries the id its caller presented;
\* so the records of a name that carried one id carry one id after an
\* operation unless it is a RegenerateToken call that saved a record under
\* an id other than the stored record's.
C36_IDsDivergeOnlyByRegenerate ==
    [][(last'.op \in LifecycleOps) =>
        /\ \A r \in store' \ store :
            /\ r.ChannelID = last'.ChannelID
            /\ r.ChannelName = last'.ChannelName
        /\ \A r \in store' : \A q \in store :
            SameKey(r, q) => r.ChannelID = q.ChannelID
        /\ \A n \in Names :
            (OneID(store, n) /\ ~OneID(store', n)) =>
                /\ last'.op = "RegenerateToken"
                /\ last'.err = ""
                /\ last'.res.Token # ""
                /\ n = last'.ChannelName
                /\ \E q \in Group(store, n) : q.ChannelID # last'.ChannelID
        /\ (/\ last'.op = "RegenerateToken"
            /\ last'.err = ""
            /\ last'.res.Token # "") =>
                \E r \in store' \ store :
                    r.Token = last'.res.Token /\ r.ChannelID = last'.ChannelID
    ]_vars

\* A RegenerateToken call presenting another channel id than the stored
\* record's has saved its record: the name holds records of two ids.
C36_Witness ==
    /\ last.op = "RegenerateToken"
    /\ last.err = ""
    /\ last.res.Token # ""
    /\ \E a \in Group(store, last.ChannelName), b \in Group(store, last.ChannelName) :
        /\ a.ChannelID # b.ChannelID
        /\ b.ChannelID = last.ChannelID
        /\ b.Token = last.res.Token

\* What VerifyToken answers for the token the last call returned, when it
\* is called next and its query succeeds.
VerifyNext == VerifyToken(store, last.ChannelName, last.res.Token, "")

ReturnedToken ==
    /\ last.op \in {"GenerateAndSaveToken", "RegenerateToken"}
    /\ last.err = ""
    /\ last.res.Token # ""

\* C37, as stated: for every token returned without error by
\* GenerateAndSaveToken or RegenerateToken, VerifyToken called next with the
\* name and that token answers Matched with the caller's channel id.
C37_VerifiesToCaller ==
    ReturnedToken =>
        /\ VerifyNext.err = ""
        /\ Matched(VerifyNext.res)
        /\ VerifyNext.res.ChannelID = last.ChannelID

\* C37, amended: VerifyToken called next answers Matched for every token
\* returned; the channel id is the caller's when the call saved the token
\* (IsGenerated true, or RegenerateToken), and the id of the stored first
\* record of the name when GenerateAndSaveToken returned that record's
\* token with IsGenerated false.
C37_VerifiesToOwner ==
    ReturnedToken =>
        /\ VerifyNext.err = ""
        /\ Matched(VerifyNext.res)
        /\ VerifyNext.res.ChannelName = last.ChannelName
        /\ IF last.op = "GenerateAndSaveToken" /\ ~last.res.IsGenerated
           THEN \E r \in Group(store, last.ChannelName) :
                    /\ \A q \in Group(store, last.ChannelName) : r.Version <= q.Version
                    /\ r.Token = last.res.Token
                    /\ VerifyNext.res.ChannelID = r.ChannelID
           ELSE VerifyNext.res.ChannelID = last.ChannelID

\* GenerateAndSaveToken returned the token of a record stored under another
\* channel id than its caller's.
C37_Witness ==
    /\ last.op = "GenerateAndSaveToken"
    /\ last.err = ""
    /\ ~last.res.IsGenerated
    /\ \E r \in Group(store, last.ChannelName) :
        r.Token = last.res.Token /\ r.ChannelID # last.ChannelID

(***************************************************************************)
(* Claims on the HTTP front (specification SpecHandler).  A webhook        *)
(* request leaves the table as it is, so the state that holds its answer   *)
(* in last holds the table it was answered from in store.                  *)
(***************************************************************************)
\* The requests whose payload is a JSON text: a JSON body under either
\* content type, or the form encoding of one under the form content type.
ParsedRequests ==
    {<<ct, b>> : ct \in ContentTypes, b \in {JSONBody, ChannelBody, PercentBody, "null"}}
    \cup {<<FormContentType, FormBody>>}

\* C23: a webhook request calls PostMessage at most once, and only when a
\* stored record of the name carries the given token and the payload parsed;
\* the call and the request it sends name the channel_id of that record.
\* With no record of the name the answer is 404, with records but none
\* carrying the token 401, with an unparsable payload 400, each with no
\* PostMessage call and no error.
C23_ForwardOnlyWhenMatchedAndParsed ==
    (last.op = "Webhook") =>
        LET G == Group(store, last.ChannelName)
            M == {r \in G : r.Token = last.Token}
            parsed == <<last.contentType, last.body>> \in ParsedRequests
        IN /\ Len(last.posts) <= 1
           /\ last.posts # <<>> =>
                /\ parsed
                /\ \E r \in M :
                    /\ last.posts[1].ChannelID = r.ChannelID
                    /\ \A i \in 1..Len(last.posts[1].sent) :
                        \A f \in last.posts[1].sent[i] :
                            f[1] = "channel" => f[2] = r.ChannelID
           /\ (last.fault # "query" /\ G = {}) =>
                last.status = 404 /\ last.err = "" /\ last.posts = <<>>
           /\ (last.fault # "query" /\ G # {} /\ M = {}) =>
                last.status = 401 /\ last.err = "" /\ last.posts = <<>>
           /\ (last.fault = "" /\ M # {} /\ ~parsed) =>
                last.status = 400 /\ last.err = "" /\ last.posts = <<>>

\* A payload that names a channel of its own was forwarded to the channel of
\* the matching record and answered with 200.
C23_Witness ==
    /\ last.op = "Webhook"
    /\ last.body = ChannelBody
    /\ last.status = 200
    /\ Len(last.posts) = 1
    /\ last.posts[1].sent # <<>>
    /\ \E r \in store : r.Token = last.Token /\ <<"channel", r.ChannelID>> \in last.posts[1].sent[1]

\* C24: once the payload is sent, the answer follows from what the Slack
\* API did: accepted gives 200, a timeout 504, a status 500..599 gives 502, a
\* status 400..499 gives that status, any other status than 200 an error
\* and no response, a rejection by the API (status 200, ok false) 400.
C24_ResponseFollowsUpstream ==
    (last.op = "Webhook" /\ last.posts # <<>> /\ last.posts[1].sent # <<>>) =>
        LET u == last.posts[1].upstream
            c == u.StatusCode
        IN /\ u.kind = "timeout" => last.status = 504 /\ last.err = ""
           /\ u.kind = "response" =>
                /\ (c = 200 /\ u.body = "ok") => last.status = 200 /\ last.err = ""
                /\ (c = 200 /\ u.body \in {"channel_not_found", "invalid_auth"}) =>
                        last.status = 400 /\ last.err = ""
                /\ (c >= 500 /\ c <= 599) => last.status = 502 /\ last.err = ""
                /\ (c >= 400 /\ c <= 499) => last.status = c /\ last.err = ""
                /\ (c # 200 /\ (c < 400 \/ c > 599)) =>
                        last.status = 0 /\ last.err # ""

\* The Slack API answered 429 and the webhook answered 429.
C24_Witness ==
    /\ last.op = "Webhook"
    /\ last.posts # <<>>
    /\ last.posts[1].upstream.kind = "response"
    /\ last.posts[1].upstream.StatusCode = 429
    /\ last.status = 429

\* The number of whitespace-separated fields of a text: the pieces that
\* open a run without whitespace.
FieldCount(text) ==
    Cardinality({i \in 1..Len(text) :
                    /\ text[i] # Whitespace
                    /\ (i = 1 \/ text[i - 1] = Whitespace)})

\* C25: the revoke-renamed command calls RevokeRenamedToken exactly when its
\* text has two whitespace-separated fields, once, with the command's
\* channel id, the first field as the channel name and the second as the
\* token; for any other number of fields it answers with the usage message,
\* returns no error, makes no token service call and leaves the table as it
\* was.
C25_RevokeRenamedArity ==
    [][(last'.op = "CmdRevokeRenamed") =>
        LET text == last'.Text
        IN /\ FieldCount(text) # 2 =>
                /\ last'.calls = <<>>
                /\ last'.err = ""
                /\ last'.msg = "Invalid arguments"
                /\ store' = store
           /\ FieldCount(text) = 2 =>
                /\ Len(last'.calls) = 1
                /\ last'.calls[1].op = "RevokeRenamedToken"
                /\ last'.calls[1].ChannelID = last'.ChannelID
                /\ <<last'.calls[1].ChannelName, last'.calls[1].Token>> = Fields(text)
                /\ last'.msg # "Invalid arguments"
    ]_vars

\* A text of three fields, the first two naming a stored record of the
\* command's channel, was refused.
C25_Witness ==
    /\ last.op = "CmdRevokeRenamed"
    /\ last.Text = <<"general", Whitespace, "A", Whitespace, "A">>
    /\ last.msg = "Invalid arguments"
    /\ \E r \in store :
        r.ChannelName = "general" /\ r.Token = "A" /\ r.ChannelID = last.ChannelID

(***************************************************************************)
(* Claims on the functions over given tables (specification SpecInputs).   *)
(***************************************************************************)
\* C26: generateWithRetry calls the generator at most 4 times and stops at
\* the first call whose value is no stored token of the group: it returns
\* that value (or fails, when that call of the generator failed); it never
\* returns a stored token; when all 4 values are stored tokens it fails with
\* an error and no token.
C26_GenerateWithRetry ==
    (last.op = "generateWithRetry") =>
        LET stored == {r.Token : r \in Group(store, last.ChannelName)}
            F == {k \in 1..4 : last.gen[k] \notin stored}
        IN /\ last.calls \in 1..4
           /\ last.err = "" => last.token \notin stored /\ last.token \in Tokens
           /\ last.err # "" => last.token = ""
           /\ F = {} => last.err # "" /\ last.calls = 4
           /\ F # {} =>
                LET k == CHOOSE x \in F : \A y \in F : x <= y
                IN /\ last.calls = k
                   /\ last.gen[k] # "" => last.err = "" /\ last.token = last.gen[k]
                   /\ last.gen[k] = "" => last.err # ""

\* Four values that are, in turn, the two stored tokens of the group: the
\* generator was called four times and the function failed.
C26_Witness ==
    /\ last.op = "generateWithRetry"
    /\ last.gen = <<"A", "B", "A", "B">>
    /\ {r.Token : r \in Group(store, last.ChannelName)} = {"A", "B"}
    /\ last.calls = 4
    /\ last.err = "collision"

\* C29: when the query succeeds, GetTokens returns one entry per stored
\* record of the name, carrying that record's token and version, in the
\* order of the query (ascending version); when the created_at of a record
\* of the name is no RFC 3339 time it returns an error and no entries.
C29_GetTokens ==
    (last.op = "GetTokens" /\ last.err # "query") =>
        LET G == Group(store, last.ChannelName)
            entries == last.res
        IN IF \E r \in G : r.CreatedAt # currentTimestamp
           THEN last.err # "" /\ entries = <<>>
           ELSE /\ last.err = ""
                /\ Len(entries) = Cardinality(G)
                /\ \A r \in G : \E i \in 1..Len(entries) :
                        entries[i].Token = r.Token /\ entries[i].Version = r.Version
                /\ \A i \in 1..Len(entries) : \A j \in 1..Len(entries) :
                        i < j => entries[i].Version < entries[j].Version

\* Two records of the name, with the other name's records beside them:
\* two entries came back.
C29_Witness ==
    /\ last.op = "GetTokens"
    /\ last.err = ""
    /\ Len(last.res) = 2
    /\ last.res[1].Token # last.res[2].Token
    /\ Cardinality(store) = 3

\* C31: whatever the order in which the records of the name are handed
\* to RegenerateToken, the record it goes on to save has the version 1 + the
\* greatest version among those records.
C31_VersionIsMaxPlusOne ==
    (last.op = "RegenerateTokenFrom" /\ last.step.kind = "save") =>
        /\ last.recs # <<>>
        /\ \E i \in 1..Len(last.recs) :
            /\ \A j \in 1..Len(last.recs) : last.recs[j].Version <= last.recs[i].Version
            /\ last.step.rec.Version = last.recs[i].Version + 1

\* A Save follows for the one record of the name, at version 1, while the
\* other name holds two records.
C31_Witness ==
    /\ last.op = "RegenerateTokenFrom"
    /\ last.step.kind = "save"
    /\ last.recs[1].Version = 1
    /\ last.step.rec.Version = 2
    /\ Cardinality(store) = 3

(***************************************************************************)
(* Concurrent requests: the read step and the write step of an operation   *)
(* are separate steps, and the steps of the requests interleave.  No       *)
(* dependency fails here; a write fails only when the table rejects it.    *)
(***************************************************************************)
AfterRead(p, op, channelID, channelName, token, step) ==
    /\ procs' = [procs EXCEPT ![p] =
                    [pc |-> IF step.kind = "return" THEN "done" ELSE "write",
                     op |-> op, ChannelID |-> channelID, ChannelName |-> channelName,
                     Token |-> token,
                     recs |-> QueryByChannelName(store, channelName),
                     step |-> step,
                     rest |-> <<>>,
                     err |-> IF step.kind = "return" THEN step.err ELSE "",
                     res |-> IF step.kind = "return" THEN step.res ELSE step.zero]]
    /\ UNCHANGED <<store, last>>

ReadGenerateAndSaveToken(p) ==
    /\ procs[p].pc = "idle"
    /\ \E channelID \in RaceIDs, channelName \in RaceNames, gen \in RaceGenStreams :
        AfterRead(p, "GenerateAndSaveToken", channelID, channelName, "",
                  GenerateAndSaveTokenRead(store, channelID, channelName, gen, ""))

ReadRegenerateToken(p) ==
    /\ procs[p].pc = "idle"
    /\ \E channelID \in RaceIDs, channelName \in RaceNames, gen \in RaceGenStreams :
        AfterRead(p, "RegenerateToken", channelID, channelName, "",
                  RegenerateTokenRead(store, channelID, channelName, gen, ""))

ReadRevokeToken(p) ==
    /\ procs[p].pc = "idle"
    /\ \E channelName \in RaceNames, givenToken \in GivenTokens :
        AfterRead(p, "RevokeToken", "", channelName, givenToken,
                  RevokeTokenRead(store, channelName, givenToken, ""))

ReadRevokeRenamedToken(p) ==
    /\ procs[p].pc = "idle"
    /\ \E channelID \in RaceIDs, channelName \in RaceNames, givenToken \in GivenTokens :
        AfterRead(p, "RevokeRenamedToken", channelID, channelName, givenToken,
                  RevokeRenamedTokenRead(store, channelID, channelName, givenToken, ""))

\* The channel listings of a pass that runs among the concurrent requests.
RaceListings == {L \in Listings : \A c \in L : c.ID \in RaceIDs}

BatchDelete(rec) == WriteDelete(rec, [ok |-> TRUE], [ok |-> FALSE])

\* A reconciliation pass scans the table and lists the channels; from then on
\* it holds the archived records it read, to delete one after the other.
ReadBatch(p) ==
    /\ procs[p].pc = "idle"
    /\ \E L \in RaceListings, nameOrder \in NameOrders :
        LET olds == ScanAll(store, nameOrder)
            archived == ArchiveEvents(olds, GetAllChannels(L))
            todo == [i \in 1..Len(archived) |-> archived[i].record]
        IN procs' = [procs EXCEPT ![p] =
                        [pc |-> IF todo = <<>> THEN "done" ELSE "write",
                         op |-> "Batch", ChannelID |-> "", ChannelName |-> "",
                         Token |-> "",
                         recs |-> <<>>,
                         step |-> IF todo = <<>> THEN Return("", [ok |-> TRUE])
                                  ELSE BatchDelete(Head(todo)),
                         rest |-> IF todo = <<>> THEN <<>> ELSE Tail(todo),
                         err |-> "",
                         res |-> IF todo = <<>> THEN [ok |-> TRUE] ELSE [ok |-> FALSE]]]
    /\ UNCHANGED <<store, last>>

\* The write of a request; a pass goes on to its next Delete when one succeeds.
Write(p) ==
    /\ procs[p].pc = "write"
    /\ LET out == Commit(store, procs[p].step, "")
       IN /\ VersionsInBound(out.store)
          /\ store' = out.store
          /\ procs' = IF out.err = "" /\ procs[p].rest # <<>>
                      THEN [procs EXCEPT ![p].step = BatchDelete(Head(procs[p].rest)),
                                         ![p].rest = Tail(procs[p].rest)]
                      ELSE [procs EXCEPT ![p].pc = "done", ![p].err = out.err,
                                         ![p].res = out.res]
    /\ UNCHANGED last

Finish(p) ==
    /\ procs[p].pc = "done"
    /\ procs' = [procs EXCEPT ![p] = ProcIdle]
    /\ UNCHANGED <<store, last>>

NextConc ==
    \E p \in Procs :
        \/ ReadGenerateAndSaveToken(p)
        \/ ReadRegenerateToken(p)
        \/ ReadRevokeToken(p)
        \/ ReadRevokeRenamedToken(p)
        \/ ReadBatch(p)
        \/ Write(p)
        \/ Finish(p)

SpecConc == Init /\ [][NextConc]_vars

(***************************************************************************)
(* Properties of the concurrent requests (SpecConc).                       *)
(***************************************************************************)
\* C2: with the read step and the write step of every operation interleaved
\* arbitrarily among concurrent calls on one channel name, the table never
\* holds more than 2 records of that name.
C2_AtMostTwoRecordsConcurrent ==
    \A channelName \in RaceNames :
        \A S \in SUBSET Group(store, channelName) : Cardinality(S) <= maxTokenCount

\* C3: two RegenerateToken calls have read the same single record and the
\* first has saved its record; the Save of the second, to the same key, is
\* rejected: the second call returns an error and no token, and the record
\* written first stays as it is.
C3_SecondSaveRejected ==
    [][\A p, q \in Procs :
         (/\ p # q
          /\ procs[p].pc = "done"
          /\ procs[p].op = "RegenerateToken"
          /\ procs[p].step.kind = "save"
          /\ procs[p].err = ""
          /\ procs[q].pc = "write"
          /\ procs[q].op = "RegenerateToken"
          /\ Len(procs[p].recs) = 1
          /\ procs[q].recs = procs[p].recs
          /\ SameKey(procs[q].step.rec, procs[p].step.rec)
          /\ procs[p].step.rec \in store
          /\ procs'[q].pc = "done")
         => /\ procs'[q].err # ""
            /\ procs'[q].res.Token = ""
            /\ procs[p].step.rec \in store']_vars

\* C12: under any interleaving, the Delete of RevokeToken, of
\* RevokeRenamedToken or of a reconciliation pass removes the record at the
\* (channel_name, version) it read, and nothing else, only if the token stored
\* there at delete time is the token it read; if the key is absent or holds
\* another token, the Delete fails with an error and the table is unchanged.
C12_ConditionalDelete ==
    [][\A p \in Procs :
         (/\ procs[p].pc = "write"
          /\ procs[p].step.kind = "delete"
          /\ procs'[p] # procs[p])
         => LET rec == procs[p].step.rec
                at == {r \in store : SameKey(r, rec)}
            IN IF \E r \in at : r.Token = rec.Token
               THEN /\ store' = store \ at
                    /\ Cardinality(at) = 1
                    /\ procs'[p].err = ""
               ELSE /\ store' = store
                    /\ procs'[p].pc = "done"
                    /\ procs'[p].err = "delete"]_vars

\* A Delete has failed because, since the caller read the record, the key came
\* to hold another token.
C12_Witness ==
    \E p \in Procs :
        /\ procs[p].pc = "done"
        /\ procs[p].step.kind = "delete"
        /\ procs[p].err = "delete"
        /\ \E r \in store : SameKey(r, procs[p].step.rec)
                            /\ r.Token # procs[p].step.rec.Token

\* C38: a GenerateAndSaveToken call has returned IsGenerated true without
\* error and its token is stored under the name; when a concurrent
\* GenerateAndSaveToken call for the same name then makes its write and
\* completes, the token of the first call is still stored under the name.
C38_GeneratedTokenStaysStored ==
    [][\A p, q \in Procs :
         (/\ p # q
          /\ procs[p].pc = "done"
          /\ procs[p].op = "GenerateAndSaveToken"
          /\ procs[p].err = ""
          /\ procs[p].res.IsGenerated
          /\ \E r \in Group(store, procs[p].ChannelName) : r.Token = procs[p].res.Token
          /\ procs[q].pc = "write"
          /\ procs[q].op = "GenerateAndSaveToken"
          /\ procs[q].ChannelName = procs[p].ChannelName
          /\ procs'[q].pc = "done")
         => \E r \in Group(store', procs[p].ChannelName) : r.Token = procs[p].res.Token]_vars

====
